---- MODULE Spec2Model ----
(***************************************************************************)
(* Task state engine of the To-Do application: accounts, session, per-     *)
(* account task collections kept in localStorage, and the handlers that    *)
(* mutate them.                                                            *)
(*                                                                         *)
(* Conventions.                                                            *)
(*  - A JavaScript string is a sequence of one-character strings, so that  *)
(*    trim(), toLowerCase() and .length are computed, not assumed.         *)
(*  - null / undefined is the empty sequence <<>>; a present optional      *)
(*    value v is <<v>>.                                                    *)
(*  - A JavaScript object is a function from property names to values; a   *)
(*    property whose value is undefined is dropped by JSON.stringify.      *)
(*  - localStorage is a partial function from keys to JSON values;         *)
(*    getItem of a missing key is null.                                    *)
(*  - The clock `now` counts the minutes since 2024-03-01T00:00Z; a        *)
(*    timestamp written by new Date().toISOString() is that count.         *)
(***************************************************************************)
EXTENDS Integers, Sequences, FiniteSets, TLC

(***************************************************************************)
(* Bounds of the model.                                                    *)
(***************************************************************************)
MaxClock == 1
MaxIds == 1
MaxPending == 2

(***************************************************************************)
(* Storage keys.                                                           *)
(***************************************************************************)
TASK_KEY_PREFIX == "todo.tasks.v1."
USERS_KEY == <<"todo.users.v1">>
SESSION_KEY == <<"todo.session.v1">>

Null == <<>>
Some(v) == <<v>>

(***************************************************************************)
(* Strings used as inputs.                                                 *)
(***************************************************************************)
EmptyString == <<>>
Blank == <<" ">>
NameBob == <<"B", "o", "b">>
NameBobPadded == <<" ", "b", "o", "b", " ">>
NameAmy == <<"a", "m", "y">>
NameShort == <<"A", "l">>
NameConstructor == <<"c", "o", "n", "s", "t", "r", "u", "c", "t", "o", "r">>
PwSecret == <<"s", "e", "c", "r", "e", "t">>
PwShort == <<"a", "b", "c">>
\* six UTF-16 code units, the first one a high surrogate without its pair
PwSurrogate == <<"\\uD800", "e", "c", "r", "e", "t">>
TitleA == <<"A">>
TitleBPadded == <<" ", "B">>

UsernameInputs == {Blank, NameBob, NameBobPadded, NameAmy, NameShort, NameConstructor}
PasswordInputs == {EmptyString, PwSecret, PwShort}
ConfirmInputs == {PwSecret, PwShort}
TitleInputs == {Blank, TitleA, TitleBPadded}
\* a date string "YYYY-MM-DD" is the triple <<y, m, d>>; "2024-13-01" is not a date
DueInputs == {EmptyString, <<2024, 3, 1>>, <<2024, 13, 1>>}
\* values of the priority <select>; an atomic string each
PriorityInputs == {"", "high", "urgent"}

(***************************************************************************)
(* String.prototype.trim, toLowerCase.                                     *)
(***************************************************************************)
IsWhitespace(c) == c = " "

RECURSIVE TrimStart(_)
TrimStart(s) ==
  IF s # <<>> /\ IsWhitespace(Head(s)) THEN TrimStart(Tail(s)) ELSE s

RECURSIVE TrimEnd(_)
TrimEnd(s) ==
  IF s # <<>> /\ IsWhitespace(s[Len(s)]) THEN TrimEnd(SubSeq(s, 1, Len(s) - 1)) ELSE s

Trim(s) == TrimEnd(TrimStart(s))

LowerChar(c) ==
  CASE c = "A" -> "a"
    [] c = "B" -> "b"
    [] OTHER -> c

ToLowerCase(s) == [i \in 1..Len(s) |-> LowerChar(s[i])]

\* Normalise le nom d'utilisateur (minuscule, sans espaces autour)
normalizeUsername(value) == ToLowerCase(Trim(value))

(***************************************************************************)
(* Property lookup obj[key] on an object produced by JSON.parse: an own    *)
(* property, else a property inherited from Object.prototype.              *)
(***************************************************************************)
ObjectPrototypeKeys == {NameConstructor}
InheritedValue == [p \in {} |-> p]

HasProperty(obj, key) == key \in DOMAIN obj \/ key \in ObjectPrototypeKeys
GetProperty(obj, key) == IF key \in DOMAIN obj THEN obj[key] ELSE InheritedValue

\* field of a record object, undefined when the object lacks it
Field(obj, name) == IF name \in DOMAIN obj THEN Some(obj[name]) ELSE Null

(***************************************************************************)
(* Date: parsing of a date-only ISO string (UTC midnight) and              *)
(* toISOString().slice(0, 10).  A Date is a count of days since            *)
(* 1970-01-01, or NaN (Null) for an Invalid Date.                          *)
(***************************************************************************)
IsLeapYear(y) == (y % 4 = 0 /\ y % 100 # 0) \/ y % 400 = 0

DaysInMonth(y, m) ==
  IF m = 2 THEN (IF IsLeapYear(y) THEN 29 ELSE 28)
  ELSE IF m \in {4, 6, 9, 11} THEN 30 ELSE 31

\* days since 1970-01-01 of the civil date y-m-d (proleptic Gregorian)
DaysFromCivil(y, m, d) ==
  LET yy == IF m <= 2 THEN y - 1 ELSE y
      era == yy \div 400
      yoe == yy - era * 400
      mp == (m + 9) % 12
      doy == (153 * mp + 2) \div 5 + d - 1
      doe == yoe * 365 + yoe \div 4 - yoe \div 100 + doy
  IN era * 146097 + doe - 719468

\* the civil date <<y, m, d>> of a count of days since 1970-01-01
CivilFromDays(z) ==
  LET zz == z + 719468
      era == zz \div 146097
      doe == zz - era * 146097
      yoe == (doe - doe \div 1460 + doe \div 36524 - doe \div 146096) \div 365
      doy == doe - (365 * yoe + yoe \div 4 - yoe \div 100)
      mp == (5 * doy + 2) \div 153
      d == doy - (153 * mp + 2) \div 5 + 1
      m == IF mp < 10 THEN mp + 3 ELSE mp - 9
      y == yoe + era * 400 + (IF m <= 2 THEN 1 ELSE 0)
  IN <<y, m, d>>

\* new Date(value) for a date-only string: Null is an Invalid Date
DateParse(value) ==
  IF /\ Len(value) = 3
     /\ value[2] \in 1..12
     /\ value[3] \in 1..DaysInMonth(value[1], value[2])
  THEN Some(DaysFromCivil(value[1], value[2], value[3]))
  ELSE Null

\* Normalise une date vers le format ISO (yyyy-mm-dd)
normalizeDate(value) ==
  IF value = EmptyString THEN Null
  ELSE LET date == DateParse(value)
       IN IF date = Null THEN Null ELSE CivilFromDays(date[1])

\* normalizePriority that keeps whatever value it is given
normalizePriorityKeepsAny(value) == Some(value)

\* Normalise la priorite vers low/med/high ou undefined
normalizePriority(value) ==
  IF value = "low" \/ value = "med" \/ value = "high" THEN Some(value) ELSE Null

(***************************************************************************)
(* Password hashing.  The SHA-256 hex digest and the base64 encoding are   *)
(* injective on the passwords of the model and are written as a tagged     *)
(* copy of the password.  encodeURIComponent throws on a lone surrogate.   *)
(***************************************************************************)
LoneSurrogate == "\\uD800"
HasLoneSurrogate(s) == \E i \in 1..Len(s) : s[i] = LoneSurrogate
Sha256Hex(password) == <<"sha256:">> \o password
Base64(password) == <<"base64:">> \o password

\* Hachage du mot de passe (SHA-256 via WebCrypto si disponible)
hashPassword(password, subtle) ==
  IF subtle THEN Sha256Hex(password)
  ELSE IF HasLoneSurrogate(password) THEN password
  ELSE Base64(password)

(***************************************************************************)
(* Tasks.  In memory a task has all eight properties; description, dueAt   *)
(* and priority may be undefined.  JSON.stringify drops the undefined      *)
(* ones, JSON.parse gives back what was written.                           *)
(***************************************************************************)
JsonTask(task) ==
  [id |-> task.id, title |-> task.title, completed |-> task.completed,
   createdAt |-> task.createdAt, updatedAt |-> task.updatedAt]
  @@ (IF task.description # Null THEN [description |-> task.description[1]] ELSE <<>>)
  @@ (IF task.dueAt # Null THEN [dueAt |-> task.dueAt] ELSE <<>>)
  @@ (IF task.priority # Null THEN [priority |-> task.priority[1]] ELSE <<>>)

JsonTasks(list) == [i \in 1..Len(list) |-> JsonTask(list[i])]

\* normalizeTask that stamps every record it loads
normalizeTaskRestamps(raw, clock) ==
  IF "id" \notin DOMAIN raw \/ "title" \notin DOMAIN raw THEN Null
  ELSE Some([id |-> raw.id,
             title |-> raw.title,
             completed |-> IF "completed" \in DOMAIN raw THEN raw.completed ELSE FALSE,
             description |-> Field(raw, "description"),
             createdAt |-> IF "createdAt" \in DOMAIN raw THEN raw.createdAt ELSE clock,
             updatedAt |-> clock,
             dueAt |-> IF "dueAt" \in DOMAIN raw THEN normalizeDate(raw.dueAt) ELSE Null,
             priority |-> IF "priority" \in DOMAIN raw THEN normalizePriority(raw.priority) ELSE Null])

\* normalizeTask: Null when the record is dropped, else <<task>>
normalizeTask(raw, clock) ==
  IF "id" \notin DOMAIN raw \/ "title" \notin DOMAIN raw THEN Null
  ELSE Some([id |-> raw.id,
             title |-> raw.title,
             completed |-> IF "completed" \in DOMAIN raw THEN raw.completed ELSE FALSE,
             description |-> Field(raw, "description"),
             createdAt |-> IF "createdAt" \in DOMAIN raw THEN raw.createdAt ELSE clock,
             updatedAt |-> IF "updatedAt" \in DOMAIN raw THEN raw.updatedAt ELSE clock,
             dueAt |-> IF "dueAt" \in DOMAIN raw THEN normalizeDate(raw.dueAt) ELSE Null,
             priority |-> IF "priority" \in DOMAIN raw THEN normalizePriority(raw.priority) ELSE Null])

RECURSIVE NormalizeAll(_, _)
NormalizeAll(parsed, clock) ==
  IF parsed = <<>> THEN <<>>
  ELSE normalizeTask(Head(parsed), clock) \o NormalizeAll(Tail(parsed), clock)

\* one storage key for the tasks of every account
getTaskStorageKeyShared(accountId) == <<TASK_KEY_PREFIX, EmptyString>>

\* Cle de stockage des taches propre a chaque utilisateur
getTaskStorageKey(accountId) == <<TASK_KEY_PREFIX, accountId>>

\* A stored text that JSON.parse rejects, and one that parses to something
\* other than an array, are written as a one-element value tagged `json`;
\* every other stored value is the array that JSON.parse returns.
UnparseableJson == <<[json |-> "unparseable"]>>
JsonObject(record) == <<[json |-> "object"] @@ record>>
JsonParseThrows(raw) == raw # <<>> /\ "json" \in DOMAIN raw[1] /\ raw[1].json = "unparseable"
ArrayIsArray(parsed) == parsed = <<>> \/ "json" \notin DOMAIN parsed[1]

\* Charge les taches depuis localStorage
loadTasksAnyObject(ls, accountId, clock) ==
  IF accountId = Null THEN <<>>
  ELSE IF getTaskStorageKey(accountId) \notin DOMAIN ls THEN <<>>
  ELSE IF JsonParseThrows(ls[getTaskStorageKey(accountId)]) THEN <<>>
  ELSE NormalizeAll(ls[getTaskStorageKey(accountId)], clock)

loadTasks(ls, accountId, clock) ==
  IF accountId = Null THEN <<>>
  ELSE IF getTaskStorageKey(accountId) \notin DOMAIN ls THEN <<>>
  ELSE IF JsonParseThrows(ls[getTaskStorageKey(accountId)]) THEN <<>>
  ELSE IF ~ArrayIsArray(ls[getTaskStorageKey(accountId)]) THEN <<>>
  ELSE NormalizeAll(ls[getTaskStorageKey(accountId)], clock)

\* Charge la "table" des utilisateurs depuis localStorage
loadUsers(ls) == IF USERS_KEY \in DOMAIN ls THEN ls[USERS_KEY] ELSE <<>>

\* localStorage.setItem / removeItem
SetItem(ls, key, value) == (key :> value) @@ ls
RemoveItem(ls, key) == [k \in DOMAIN ls \ {key} |-> ls[k]]

(***************************************************************************)
(* Date objects.  A Date is its time value in minutes since                *)
(* 1970-01-01T00:00Z.  The local-time methods convert through the offset   *)
(* of the environment's time zone; a local time that a transition repeats  *)
(* or skips is read with the offset in force before the transition.        *)
(***************************************************************************)
MinutesPerDay == 1440
MinutesPerHour == 60
StartDay == DaysFromCivil(2024, 3, 1)

UtcMinute(y, m, d, h) == DaysFromCivil(y, m, d) * MinutesPerDay + h * MinutesPerHour

TimeZones == {"UTC", "Australia/Sydney", "America/New_York"}

\* standard offset east of UTC, and the summer-time rule for 2024: summer
\* time is in force at t iff (from <= t < to) = inside
ZoneRules(tz) ==
  CASE tz = "Australia/Sydney" ->
         [std |-> 600, from |-> UtcMinute(2024, 4, 6, 16),
          to |-> UtcMinute(2024, 10, 5, 16), inside |-> FALSE]
    [] tz = "America/New_York" ->
         [std |-> -300, from |-> UtcMinute(2024, 3, 10, 7),
          to |-> UtcMinute(2024, 11, 3, 6), inside |-> TRUE]
    [] OTHER -> [std |-> 0, from |-> 0, to |-> 0, inside |-> TRUE]

InSummerTime(tz, t) ==
  ((ZoneRules(tz).from <= t) /\ (t < ZoneRules(tz).to)) = ZoneRules(tz).inside

OffsetAt(tz, t) ==
  ZoneRules(tz).std + (IF InSummerTime(tz, t) THEN MinutesPerHour ELSE 0)

\* (CHOOSE y \in {e(x) : x \in {v}} : TRUE is e(v) with v computed once, as
\* a `const` holds a value)
LocalTime(tz, t) == CHOOSE y \in {x + OffsetAt(tz, x) : x \in {t}} : TRUE

\* the time value of a local time
UTC(tz, local) ==
  CHOOSE y \in {IF InSummerTime(tz, x - ZoneRules(tz).std - MinutesPerHour)
                THEN x - ZoneRules(tz).std - MinutesPerHour
                ELSE x - ZoneRules(tz).std : x \in {local}} : TRUE

\* MakeDay(year, month, date) with a zero-based month that may overflow
MakeDay(y, m0, d) == DaysFromCivil(y + m0 \div 12, (m0 % 12) + 1, 1) + d - 1

LocalDay(tz, t) == LocalTime(tz, t) \div MinutesPerDay
TimeInDay(tz, t) == LocalTime(tz, t) % MinutesPerDay

DateGetDate(tz, t) == CivilFromDays(LocalDay(tz, t))[3]
DateGetDay(tz, t) == (LocalDay(tz, t) + 4) % 7
DateGetMinutes(tz, t) == LocalTime(tz, t) % MinutesPerHour
DateGetTimezoneOffset(tz, t) == 0 - OffsetAt(tz, t)

DateSetFullYear(tz, t, y, m0, d) ==
  UTC(tz, MakeDay(y, m0, d) * MinutesPerDay + TimeInDay(tz, t))

\* setHours(0, 0, 0, 0)
DateSetHoursZero(tz, t) == UTC(tz, LocalDay(tz, t) * MinutesPerDay)

DateSetDate(tz, t, n) ==
  CHOOSE y \in {UTC(tz, MakeDay(civil[1], civil[2] - 1, n) * MinutesPerDay
                              + TimeInDay(tz, t)) :
                civil \in {CivilFromDays(LocalDay(tz, t))}} : TRUE

DateSetMinutes(tz, t, m) ==
  UTC(tz, (LocalTime(tz, t) \div MinutesPerHour) * MinutesPerHour + m)

\* toISOString().slice(0, 10)
ToISOStringDate(t) == CivilFromDays(t \div MinutesPerDay)

\* new Date() when the clock shows `clock`
NewDate(clock) == StartDay * MinutesPerDay + clock

\* "YYYY-MM-DD" strings compared with <=
DateStringLE(a, b) ==
  \/ a[1] < b[1]
  \/ a[1] = b[1] /\ a[2] < b[2]
  \/ a[1] = b[1] /\ a[2] = b[2] /\ a[3] <= b[3]

defaultSortValue == "created"

(***************************************************************************)
(* State.                                                                  *)
(***************************************************************************)
VARIABLES
  localStorage,    \* window.localStorage: key -> JSON value
  tasks,           \* let tasks
  currentAccount,  \* let currentAccount: Null or [id, displayName]
  currentFilter,   \* let currentFilter
  currentSort,     \* let currentSort
  agendaScope,     \* let agendaScope
  agendaDate,      \* let agendaDate
  pending,         \* login / register calls suspended at `await hashPassword`
  now,             \* the clock read by new Date()
  nextId,          \* number of ids createId has produced so far
  webCrypto,       \* window.crypto.subtle and TextEncoder are available
  timeZone,        \* the time zone of the environment
  createdBy,       \* history: task id -> id of the account active when created
  registered,      \* history: normalized usernames whose registration succeeded
  lastEvent        \* the handler that ran last and how it ended: for a login
                   \* or registration the text it passed to setAuthMessage

vars == <<localStorage, tasks, currentAccount, currentFilter, currentSort,
          agendaScope, agendaDate, pending, now, nextId,
          webCrypto, timeZone, createdBy, registered, lastEvent>>

viewVars == <<currentFilter, currentSort, agendaScope, agendaDate>>
envVars == <<now, webCrypto, timeZone>>

currentAccountId == IF currentAccount = Null THEN Null ELSE currentAccount.id

(***************************************************************************)
(* Local dates.                                                            *)
(***************************************************************************)
\* Convertit un objet Date en chaine ISO locale (yyyy-mm-dd)
toISODateLocal(d) ==
  CHOOSE y \in {ToISOStringDate(DateSetMinutes(timeZone, copy,
                   DateGetMinutes(timeZone, copy) - DateGetTimezoneOffset(timeZone, copy))) :
                copy \in {d}} : TRUE

\* Retourne la date du jour au format ISO local (yyyy-mm-dd)
todayISO(clock) == toISODateLocal(NewDate(clock))

\* Convertit une chaine ISO (yyyy-mm-dd) en objet Date (minuit local)
parseISOToLocalDate(iso) ==
  IF iso = EmptyString THEN NewDate(now)
  ELSE DateSetHoursZero(timeZone,
         DateSetFullYear(timeZone, NewDate(now), iso[1],
                         (IF iso[2] = 0 THEN 1 ELSE iso[2]) - 1,
                         IF iso[3] = 0 THEN 1 ELSE iso[3]))

\* Ajoute/soustrait des jours a une date ISO et renvoie une nouvelle ISO
addDaysISO(iso, delta) ==
  CHOOSE y \in {toISODateLocal(DateSetDate(timeZone, d, DateGetDate(timeZone, d) + delta)) :
                d \in {parseISOToLocalDate(iso)}} : TRUE

\* Calcule le lundi et le dimanche de la semaine contenant anchorISO
getWeekRangeISO(anchorISO) ==
  LET deltaToMonday(day) == IF day = 0 THEN -6 ELSE 1 - day
      mondayOf(d) ==
        DateSetDate(timeZone, d, DateGetDate(timeZone, d) + deltaToMonday(DateGetDay(timeZone, d)))
      sundayOf(monday) == DateSetDate(timeZone, monday, DateGetDate(timeZone, monday) + 6)
  IN CHOOSE y \in {[start |-> toISODateLocal(monday),
                     end |-> toISODateLocal(sundayOf(monday))] :
                    monday \in {mondayOf(d) : d \in {parseISOToLocalDate(anchorISO)}}} : TRUE

\* saveTasks that forgets the write
saveTasksNothing(ls, account, list) == ls

\* Sauvegarde les taches (du compte courant) dans localStorage
saveTasks(ls, account, list) ==
  IF account = Null THEN ls
  ELSE SetItem(ls, getTaskStorageKey(account.id), JsonTasks(list))

\* Sauvegarde la "table" des utilisateurs dans localStorage
saveUsers(ls, users) == SetItem(ls, USERS_KEY, users)

\* Recherche une tache par identifiant
findTask(list, id) ==
  IF \E i \in 1..Len(list) : list[i].id = id
  THEN Some(list[CHOOSE i \in 1..Len(list) : list[i].id = id /\ \A j \in 1..(i - 1) : list[j].id # id])
  ELSE Null

\* setCurrentAccount that leaves the collection in memory as it is
setCurrentAccountKeepTasks(account, ls) ==
  /\ currentAccount' = account
  /\ IF account # Null
     THEN localStorage' = SetItem(ls, SESSION_KEY, account)
     ELSE localStorage' = RemoveItem(ls, SESSION_KEY)
  /\ tasks' = tasks
  /\ currentFilter' = "all"
  /\ currentSort' = defaultSortValue
  /\ UNCHANGED <<agendaScope, agendaDate>>

\* setCurrentAccount that does not remove the pointer on sign-out
setCurrentAccountKeepPointer(account, ls) ==
  /\ currentAccount' = account
  /\ IF account # Null
     THEN /\ localStorage' = SetItem(ls, SESSION_KEY, account)
          /\ tasks' = loadTasks(SetItem(ls, SESSION_KEY, account), account.id, now)
     ELSE /\ localStorage' = ls
          /\ tasks' = <<>>
  /\ currentFilter' = "all"
  /\ currentSort' = defaultSortValue
  /\ UNCHANGED <<agendaScope, agendaDate>>

\* Met a jour l'utilisateur courant (connexion/deconnexion); ls is the
\* storage as the caller left it
setCurrentAccountResetsAgenda(account, ls) ==
  /\ currentAccount' = account
  /\ IF account # Null
     THEN /\ localStorage' = SetItem(ls, SESSION_KEY, account)
          /\ tasks' = loadTasks(SetItem(ls, SESSION_KEY, account), account.id, now)
     ELSE /\ localStorage' = RemoveItem(ls, SESSION_KEY)
          /\ tasks' = <<>>
  /\ currentFilter' = "all"
  /\ currentSort' = defaultSortValue
  /\ agendaScope' = "all"
  /\ agendaDate' = todayISO(now)

setCurrentAccount(account, ls) ==
  /\ currentAccount' = account
  /\ IF account # Null
     THEN /\ localStorage' = SetItem(ls, SESSION_KEY, account)
          /\ tasks' = loadTasks(SetItem(ls, SESSION_KEY, account), account.id, now)
     ELSE /\ localStorage' = RemoveItem(ls, SESSION_KEY)
          /\ tasks' = <<>>
  /\ currentFilter' = "all"
  /\ currentSort' = defaultSortValue
  /\ UNCHANGED <<agendaScope, agendaDate>>

(***************************************************************************)
(* Session restore.                                                        *)
(***************************************************************************)
\* x || y on strings
OrElse(x, y) == IF x = Null \/ x = Some(EmptyString) THEN y ELSE x

\* the account loadSession returns, Null when there is none
loadSessionAccount(ls) ==
  IF SESSION_KEY \notin DOMAIN ls THEN Null
  ELSE LET parsed == ls[SESSION_KEY]
           id == Field(parsed, "id")
       IN IF id = Null \/ id = Some(EmptyString) THEN Null
          ELSE IF ~HasProperty(loadUsers(ls), id[1]) THEN Null
          ELSE LET record == GetProperty(loadUsers(ls), id[1])
               IN [id |-> id[1],
                   displayName |-> OrElse(Field(record, "displayName"),
                                          OrElse(Field(parsed, "displayName"), id))[1]]

\* loadSession that leaves the pointer of a missing account in place
loadSessionStorageKeep(ls) == ls

\* the storage loadSession leaves behind
loadSessionStorage(ls) ==
  IF SESSION_KEY \notin DOMAIN ls THEN ls
  ELSE LET id == Field(ls[SESSION_KEY], "id")
       IN IF id = Null \/ id = Some(EmptyString) THEN ls
          ELSE IF ~HasProperty(loadUsers(ls), id[1]) THEN RemoveItem(ls, SESSION_KEY)
          ELSE ls

(***************************************************************************)
(* Task operations.                                                        *)
(***************************************************************************)
\* ApplyFields that stamps the task whether or not a value differs
ApplyFieldsAlwaysBump(task, nextFields, clock) ==
  [[k \in DOMAIN task |-> IF k \in DOMAIN nextFields THEN nextFields[k] ELSE task[k]]
     EXCEPT !.updatedAt = clock]

\* ApplyFields that never stamps the task
ApplyFieldsNoBump(task, nextFields, clock) ==
  [k \in DOMAIN task |-> IF k \in DOMAIN nextFields THEN nextFields[k] ELSE task[k]]

\* the task with the properties of nextFields written over it; updatedAt is
\* bumped only when a property value differs
ApplyFields(task, nextFields, clock) ==
  LET updated == [k \in DOMAIN task |->
                    IF k \in DOMAIN nextFields THEN nextFields[k] ELSE task[k]]
  IN IF updated # task THEN [updated EXCEPT !.updatedAt = clock] ELSE task

\* tasks.map(...) of updateTask
MapUpdate(list, id, nextFields, clock) ==
  [i \in 1..Len(list) |->
     IF list[i].id # id THEN list[i] ELSE ApplyFields(list[i], nextFields, clock)]

\* the `changed` flag set whether or not a task matched
UpdateChangedAlways(list, id, nextFields, clock) == TRUE

\* the `changed` flag of updateTask
UpdateChanged(list, id, nextFields, clock) ==
  \E i \in 1..Len(list) :
     list[i].id = id /\ ApplyFields(list[i], nextFields, clock) # list[i]

\* Met a jour une tache existante (champs modifies + horodatage)
updateTask(id, nextFields) ==
  IF currentAccount = Null THEN UNCHANGED <<tasks, localStorage>>
  ELSE IF ~UpdateChanged(tasks, id, nextFields, now)
       THEN UNCHANGED <<tasks, localStorage>>
       ELSE /\ tasks' = MapUpdate(tasks, id, nextFields, now)
            /\ localStorage' = saveTasks(localStorage, currentAccount,
                                         MapUpdate(tasks, id, nextFields, now))

\* Supprime une tache par identifiant
deleteTask(id) ==
  IF currentAccount = Null THEN UNCHANGED <<tasks, localStorage>>
  ELSE LET next == SelectSeq(tasks, LAMBDA t : t.id # id)
       IN IF Len(next) = Len(tasks) THEN UNCHANGED <<tasks, localStorage>>
          ELSE /\ tasks' = next
               /\ localStorage' = saveTasks(localStorage, currentAccount, next)

\* ids a handler may be invoked with: those createId can produce, and two
\* it never produces
KnownIds == 0..(MaxIds + 1)

MsgSignIn == "Sign in to add tasks."

\* NewTaskSubmit without the check that an account is signed in
NewTaskSubmitNoGuard(titleInput, dueInput, priorityInput) ==
  /\ UNCHANGED <<currentAccount, viewVars, pending, envVars, registered>>
  /\ IF Trim(titleInput) = EmptyString
     THEN /\ lastEvent' = [op |-> "create", result |-> "empty"]
          /\ UNCHANGED <<tasks, localStorage, nextId, createdBy>>
     ELSE /\ nextId <= MaxIds
          /\ LET task == [id |-> nextId,
                          title |-> Trim(titleInput),
                          completed |-> FALSE,
                          createdAt |-> now,
                          updatedAt |-> now,
                          description |-> Null,
                          dueAt |-> normalizeDate(dueInput),
                          priority |-> normalizePriority(priorityInput)]
             IN /\ tasks' = <<task>> \o tasks
                /\ localStorage' = saveTasks(localStorage, currentAccount, <<task>> \o tasks)
          /\ nextId' = nextId + 1
          /\ createdBy' = (nextId :> currentAccountId) @@ createdBy
          /\ lastEvent' = [op |-> "create", result |-> "created"]

\* NewTaskSubmit that puts the new task behind the others
NewTaskSubmitAppends(titleInput, dueInput, priorityInput) ==
  /\ UNCHANGED <<currentAccount, viewVars, pending, envVars, registered>>
  /\ IF currentAccount = Null
     THEN /\ lastEvent' = [op |-> "create", result |-> MsgSignIn]
          /\ UNCHANGED <<tasks, localStorage, nextId, createdBy>>
     ELSE IF Trim(titleInput) = EmptyString
     THEN /\ lastEvent' = [op |-> "create", result |-> "empty"]
          /\ UNCHANGED <<tasks, localStorage, nextId, createdBy>>
     ELSE /\ nextId <= MaxIds
          /\ LET task == [id |-> nextId,
                          title |-> Trim(titleInput),
                          completed |-> FALSE,
                          createdAt |-> now,
                          updatedAt |-> now,
                          description |-> Null,
                          dueAt |-> normalizeDate(dueInput),
                          priority |-> normalizePriority(priorityInput)]
             IN /\ tasks' = tasks \o <<task>>
                /\ localStorage' = saveTasks(localStorage, currentAccount, tasks \o <<task>>)
          /\ nextId' = nextId + 1
          /\ createdBy' = (nextId :> currentAccountId) @@ createdBy
          /\ lastEvent' = [op |-> "create", result |-> "created"]

\* form `submit` listener of the new-task form
NewTaskSubmit(titleInput, dueInput, priorityInput) ==
  /\ UNCHANGED <<currentAccount, viewVars, pending, envVars, registered>>
  /\ IF currentAccount = Null
     THEN /\ lastEvent' = [op |-> "create", result |-> MsgSignIn]
          /\ UNCHANGED <<tasks, localStorage, nextId, createdBy>>
     ELSE IF Trim(titleInput) = EmptyString
     THEN /\ lastEvent' = [op |-> "create", result |-> "empty"]
          /\ UNCHANGED <<tasks, localStorage, nextId, createdBy>>
     ELSE /\ nextId <= MaxIds
          /\ LET task == [id |-> nextId,
                          title |-> Trim(titleInput),
                          completed |-> FALSE,
                          createdAt |-> now,
                          updatedAt |-> now,
                          description |-> Null,
                          dueAt |-> normalizeDate(dueInput),
                          priority |-> normalizePriority(priorityInput)]
             IN /\ tasks' = <<task>> \o tasks
                /\ localStorage' = saveTasks(localStorage, currentAccount, <<task>> \o tasks)
          /\ nextId' = nextId + 1
          /\ createdBy' = (nextId :> currentAccountId) @@ createdBy
          /\ lastEvent' = [op |-> "create", result |-> "created"]

\* `change` listener of the list: a task's checkbox was toggled
ToggleChange(id, checked) ==
  /\ UNCHANGED <<currentAccount, viewVars, pending, envVars, nextId, createdBy, registered>>
  /\ IF currentAccount = Null
     THEN /\ UNCHANGED <<tasks, localStorage>>
          /\ lastEvent' = [op |-> "update", result |-> "rejected"]
     ELSE /\ updateTask(id, [completed |-> checked])
          /\ lastEvent' = [op |-> "update", result |->
                IF findTask(tasks, id) = Null THEN "missing"
                ELSE IF UpdateChanged(tasks, id, [completed |-> checked], now)
                     THEN "changed" ELSE "same"]

\* startEdit and the `submit` listener of its inline form
EditSubmit(id, fieldValue) ==
  /\ UNCHANGED <<currentAccount, viewVars, pending, envVars, nextId, createdBy, registered>>
  /\ IF currentAccount = Null
     THEN /\ UNCHANGED <<tasks, localStorage>>
          /\ lastEvent' = [op |-> "edit", result |-> "rejected"]
     ELSE IF findTask(tasks, id) = Null
     THEN /\ UNCHANGED <<tasks, localStorage>>
          /\ lastEvent' = [op |-> "edit", result |-> "missing"]
     ELSE IF Trim(fieldValue) = EmptyString
     THEN /\ UNCHANGED <<tasks, localStorage>>
          /\ lastEvent' = [op |-> "edit", result |-> "empty"]
     ELSE IF Trim(fieldValue) # findTask(tasks, id)[1].title
     THEN /\ updateTask(id, [title |-> Trim(fieldValue)])
          /\ lastEvent' = [op |-> "edit", result |-> "changed"]
     ELSE /\ UNCHANGED <<tasks, localStorage>>
          /\ lastEvent' = [op |-> "edit", result |-> "same"]

\* `click` listener of the list on a delete button; ok is window.confirm
DeleteClick(id, ok) ==
  /\ UNCHANGED <<currentAccount, viewVars, pending, envVars, nextId, createdBy, registered>>
  /\ IF currentAccount = Null
     THEN /\ UNCHANGED <<tasks, localStorage>>
          /\ lastEvent' = [op |-> "delete", result |-> "rejected"]
     ELSE IF findTask(tasks, id) = Null
     THEN /\ UNCHANGED <<tasks, localStorage>>
          /\ lastEvent' = [op |-> "delete", result |-> "missing"]
     ELSE IF ~ok
     THEN /\ UNCHANGED <<tasks, localStorage>>
          /\ lastEvent' = [op |-> "delete", result |-> "cancelled"]
     ELSE /\ deleteTask(id)
          /\ lastEvent' = [op |-> "delete", result |-> "deleted"]

(***************************************************************************)
(* View engine: status filter, agenda window, sort.                        *)
(***************************************************************************)
compareCreated(a, b) == b.createdAt - a.createdAt

\* compareDueAt that puts the tasks without a due date first
compareDueAtUndatedFirst(a, b) ==
  IF a.dueAt = Null /\ b.dueAt = Null THEN compareCreated(a, b)
  ELSE IF a.dueAt = Null THEN -1
  ELSE IF b.dueAt = Null THEN 1
  ELSE IF DateParse(a.dueAt)[1] - DateParse(b.dueAt)[1] # 0
       THEN DateParse(a.dueAt)[1] - DateParse(b.dueAt)[1]
       ELSE compareCreated(a, b)

\* the comparator of sortTasks for currentSort === 'dueAt'
compareDueAt(a, b) ==
  IF a.dueAt = Null /\ b.dueAt = Null THEN compareCreated(a, b)
  ELSE IF a.dueAt = Null THEN 1
  ELSE IF b.dueAt = Null THEN -1
  ELSE IF DateParse(a.dueAt)[1] - DateParse(b.dueAt)[1] # 0
       THEN DateParse(a.dueAt)[1] - DateParse(b.dueAt)[1]
       ELSE compareCreated(a, b)

\* comparePriority that ranks a task without priority like a high one
comparePriorityNoneAsHigh(a, b) ==
  LET priorityRank == [high |-> 0, med |-> 1, low |-> 2, none |-> 0]
      rankA == priorityRank[IF a.priority = Null THEN "none" ELSE a.priority[1]]
      rankB == priorityRank[IF b.priority = Null THEN "none" ELSE b.priority[1]]
  IN IF rankA # rankB THEN rankA - rankB ELSE compareCreated(a, b)

\* the comparator of sortTasks for currentSort === 'priority'
comparePriority(a, b) ==
  LET priorityRank == [high |-> 0, med |-> 1, low |-> 2, none |-> 3]
      rankA == priorityRank[IF a.priority = Null THEN "none" ELSE a.priority[1]]
      rankB == priorityRank[IF b.priority = Null THEN "none" ELSE b.priority[1]]
  IN IF rankA # rankB THEN rankA - rankB ELSE compareCreated(a, b)

\* the comparator sortTasks hands to Array.prototype.sort for currentSort
SortCompare(a, b) ==
  IF currentSort = "dueAt" THEN compareDueAt(a, b)
  ELSE IF currentSort = "priority" THEN comparePriority(a, b)
  ELSE compareCreated(a, b)

\* InsertOrdered that puts x before the elements it ties with
InsertOrderedBeforeTies(x, sorted) ==
  LET after == {i \in 1..Len(sorted) : SortCompare(sorted[i], x) >= 0}
      at == IF after = {} THEN Len(sorted) + 1
            ELSE CHOOSE i \in after : \A j \in after : i <= j
  IN SubSeq(sorted, 1, at - 1) \o <<x>> \o SubSeq(sorted, at, Len(sorted))

\* x put into an ordered sequence behind every element that does not
\* compare greater than it
InsertOrdered(x, sorted) ==
  LET after == {i \in 1..Len(sorted) : SortCompare(sorted[i], x) > 0}
      at == IF after = {} THEN Len(sorted) + 1
            ELSE CHOOSE i \in after : \A j \in after : i <= j
  IN SubSeq(sorted, 1, at - 1) \o <<x>> \o SubSeq(sorted, at, Len(sorted))

\* Array.prototype.sort: a stable sort
RECURSIVE ArraySort(_)
ArraySort(list) ==
  IF list = <<>> THEN <<>>
  ELSE InsertOrdered(list[Len(list)], ArraySort(SubSeq(list, 1, Len(list) - 1)))

\* Trie les taches selon le critere selectionne
sortTasks(listToSort) == ArraySort(listToSort)

\* StatusKeeps that ignores the filter
StatusKeepsAll(task) == TRUE

\* the callback of tasks.filter for the status filter
StatusKeeps(task) ==
  IF currentFilter = "active" THEN ~task.completed
  ELSE IF currentFilter = "completed" THEN task.completed
  ELSE TRUE

\* the callbacks of filtered.filter for the agenda window
AgendaKeeps(task) ==
  IF agendaScope = "day" THEN task.dueAt # Null /\ task.dueAt = agendaDate
  ELSE IF agendaScope = "week"
  THEN /\ task.dueAt # Null
       /\ DateStringLE(getWeekRangeISO(agendaDate).start, task.dueAt)
       /\ DateStringLE(task.dueAt, getWeekRangeISO(agendaDate).end)
  ELSE TRUE

\* Calcule les taches a afficher selon filtres + agenda + tri
getVisibleTasks ==
  sortTasks(SelectSeq(SelectSeq(tasks, StatusKeeps), AgendaKeeps))

FilterValues == {"all", "active", "completed"}
SortValues == {"created", "dueAt", "priority"}
\* values of the scope select; the empty value stands for "all"
ScopeValues == {"", "all", "day", "week"}
\* values of the agenda's date input
AgendaDateInputs ==
  {EmptyString, <<2024, 3, 1>>, <<2024, 1, 1>>, <<2024, 1, 7>>, <<2024, 10, 5>>}

\* how far the previous-day and next-day buttons are followed from a date
\* typed into the agenda
MaxShift == 1

NearTypedDate(date) ==
  \E day \in {DateParse(date)[1]} :
    \E a \in (AgendaDateInputs \ {EmptyString}) \cup {todayISO(now)} :
       /\ day - DateParse(a)[1] <= MaxShift
       /\ DateParse(a)[1] - day <= MaxShift

ViewEvent(name) ==
  /\ lastEvent' = [op |-> name, result |-> "ok"]
  /\ UNCHANGED <<localStorage, tasks, currentAccount, pending, envVars, nextId,
                 createdBy, registered>>

\* click on a filter button
FilterClick(value) ==
  /\ currentFilter' = value
  /\ UNCHANGED <<currentSort, agendaScope, agendaDate>>
  /\ ViewEvent("filter")

\* `change` of the sort select
SortChange(value) ==
  /\ currentSort' = value
  /\ UNCHANGED <<currentFilter, agendaScope, agendaDate>>
  /\ ViewEvent("sort")

\* `change` of the agenda's date input
AgendaDateChange(value) ==
  /\ agendaDate' = (IF normalizeDate(value) = Null THEN todayISO(now) ELSE normalizeDate(value))
  /\ UNCHANGED <<currentFilter, currentSort, agendaScope>>
  /\ ViewEvent("agenda-date")

\* click on the agenda's previous-day button
AgendaPrevClick ==
  /\ NearTypedDate(addDaysISO(agendaDate, -1))
  /\ agendaDate' = addDaysISO(agendaDate, -1)
  /\ UNCHANGED <<currentFilter, currentSort, agendaScope>>
  /\ ViewEvent("agenda-prev")

\* click on the agenda's next-day button
AgendaNextClick ==
  /\ NearTypedDate(addDaysISO(agendaDate, 1))
  /\ agendaDate' = addDaysISO(agendaDate, 1)
  /\ UNCHANGED <<currentFilter, currentSort, agendaScope>>
  /\ ViewEvent("agenda-next")

\* click on the agenda's today button
AgendaTodayClick ==
  /\ agendaDate' = todayISO(now)
  /\ UNCHANGED <<currentFilter, currentSort, agendaScope>>
  /\ ViewEvent("agenda-today")

\* AgendaScopeChange that puts the anchor date back to today
AgendaScopeChangeResetsDate(value) ==
  /\ agendaScope' = (IF value = "" THEN "all" ELSE value)
  /\ agendaDate' = todayISO(now)
  /\ UNCHANGED <<currentFilter, currentSort>>
  /\ ViewEvent("agenda-scope")

\* `change` of the agenda's scope select
AgendaScopeChange(value) ==
  /\ agendaScope' = (IF value = "" THEN "all" ELSE value)
  /\ UNCHANGED <<currentFilter, currentSort, agendaDate>>
  /\ ViewEvent("agenda-scope")

(***************************************************************************)
(* Authentication.  A login or registration that reaches                   *)
(* `await hashPassword(...)` is suspended in `pending` when the digest is  *)
(* computed by WebCrypto, and other events may run before it resumes;      *)
(* without WebCrypto hashPassword does not yield to the event loop and     *)
(* the call finishes within the submit event.                              *)
(***************************************************************************)
MsgLoginRequired == "Username and password are required."
MsgRegisterRequired == "Choose a username and password to continue."
MsgMismatch == "Passwords do not match."
MsgUsernameShort == "Username must be at least 3 characters long."
MsgPasswordShort == "Password must be at least 6 characters long."
MsgUsernameRequired == "Username is required."
MsgTaken == "That username is already taken."
MsgNotFound == "Account not found."
MsgIncorrect == "Incorrect password."
MsgCreated == "Account created and signed in."
MsgSignedOut == "Signed out. Sign in to continue."
\* setAuthMessage('') of a successful login
MsgSignedIn == ""
\* the call is suspended at the await; nothing was shown yet
Hashing == "(hashing)"

\* the promise of a new hashPassword call: the first one that no suspended
\* call is waiting for
NewPromise(suspended) ==
  CHOOSE k \in 1..(Len(suspended) + 1) :
     \A m \in 1..k : (m = k) = (\A j \in 1..Len(suspended) : suspended[j].promise # m)

\* the part of the users table a suspended login keeps: the record it read
Only(users, key) == [k \in DOMAIN users \cap {key} |-> users[k]]

RemoveAt(seq, i) == [j \in 1..(Len(seq) - 1) |-> IF j < i THEN seq[j] ELSE seq[j + 1]]

\* AuthenticateFinish that signs the active account out when the password
\* is wrong
AuthenticateFinishSignsOut(op) ==
  IF Field(GetProperty(op.captured, op.normalized), "passwordHash")
       # Some(hashPassword(op.password, webCrypto))
  THEN /\ lastEvent' = [op |-> "login", result |-> MsgIncorrect]
       /\ UNCHANGED registered
       /\ setCurrentAccount(Null, localStorage)
  ELSE /\ lastEvent' = [op |-> "login", result |-> MsgSignedIn]
       /\ UNCHANGED registered
       /\ setCurrentAccount(
            [id |-> op.normalized,
             displayName |-> OrElse(Field(GetProperty(op.captured, op.normalized), "displayName"),
                                    Some(op.cleanName))[1]],
            localStorage)

\* authenticateUser after the await: compares the hash with the record read
\* before it, then handleLogin signs the account in or shows the error
AuthenticateFinish(op) ==
  IF Field(GetProperty(op.captured, op.normalized), "passwordHash")
       # Some(hashPassword(op.password, webCrypto))
  THEN /\ lastEvent' = [op |-> "login", result |-> MsgIncorrect]
       /\ UNCHANGED <<localStorage, tasks, currentAccount, viewVars, registered>>
  ELSE /\ lastEvent' = [op |-> "login", result |-> MsgSignedIn]
       /\ UNCHANGED registered
       /\ setCurrentAccount(
            [id |-> op.normalized,
             displayName |-> OrElse(Field(GetProperty(op.captured, op.normalized), "displayName"),
                                    Some(op.cleanName))[1]],
            localStorage)

\* RegisterFinish that signs in with the stored record instead of the
\* account made from it
RegisterFinishReturnsRecord(op) ==
  /\ lastEvent' = [op |-> "register", result |-> MsgCreated]
  /\ registered' = registered \cup {op.normalized}
  /\ setCurrentAccount(
       [id |-> op.normalized, displayName |-> op.cleanName,
        passwordHash |-> hashPassword(op.password, webCrypto)],
       saveUsers(localStorage,
                 (op.normalized :> [passwordHash |-> hashPassword(op.password, webCrypto),
                                    displayName |-> op.cleanName,
                                    createdAt |-> now]) @@ op.captured))

\* registerUser after the await: writes the account into the table read
\* before it and saves that table, then handleRegister signs the account in
RegisterFinish(op) ==
  /\ lastEvent' = [op |-> "register", result |-> MsgCreated]
  /\ registered' = registered \cup {op.normalized}
  /\ setCurrentAccount(
       [id |-> op.normalized, displayName |-> op.cleanName],
       saveUsers(localStorage,
                 (op.normalized :> [passwordHash |-> hashPassword(op.password, webCrypto),
                                    displayName |-> op.cleanName,
                                    createdAt |-> now]) @@ op.captured))

\* `submit` listener of the login form, up to the await
handleLogin(usernameInput, password) ==
  LET username == Trim(usernameInput)
      normalized == normalizeUsername(username)
      users == loadUsers(localStorage)
      op == [kind |-> "login", cleanName |-> username, normalized |-> normalized,
             password |-> password, captured |-> Only(users, normalized),
             promise |-> NewPromise(pending)]
  IN /\ UNCHANGED <<envVars, nextId, createdBy>>
     /\ IF username = EmptyString \/ password = EmptyString
        THEN /\ lastEvent' = [op |-> "login", result |-> MsgLoginRequired]
             /\ UNCHANGED <<localStorage, tasks, currentAccount, viewVars, pending, registered>>
        ELSE IF ~HasProperty(users, normalized)
        THEN /\ lastEvent' = [op |-> "login", result |-> MsgNotFound]
             /\ UNCHANGED <<localStorage, tasks, currentAccount, viewVars, pending, registered>>
        ELSE IF webCrypto
        THEN /\ Len(pending) < MaxPending
             /\ pending' = Append(pending, op)
             /\ lastEvent' = [op |-> "login", result |-> Hashing]
             /\ UNCHANGED <<localStorage, tasks, currentAccount, viewVars, registered>>
        ELSE /\ AuthenticateFinish(op)
             /\ UNCHANGED pending

\* registerUserThrows without the check of the password length
registerUserThrowsAnyPassword(username, password, users) ==
  IF Len(Trim(username)) < 3 THEN Some(MsgUsernameShort)
  ELSE IF HasProperty(users, normalizeUsername(Trim(username))) THEN Some(MsgTaken)
  ELSE Null

\* registerUser up to the await: the message of the error it throws, or Null
registerUserThrows(username, password, users) ==
  IF Len(Trim(username)) < 3 THEN Some(MsgUsernameShort)
  ELSE IF Len(password) < 6 THEN Some(MsgPasswordShort)
  ELSE IF normalizeUsername(Trim(username)) = EmptyString THEN Some(MsgUsernameRequired)
  ELSE IF HasProperty(users, normalizeUsername(Trim(username))) THEN Some(MsgTaken)
  ELSE Null

\* `submit` listener of the register form, up to the await
handleRegister(usernameInput, password, confirm) ==
  LET username == Trim(usernameInput)
      normalized == normalizeUsername(username)
      users == loadUsers(localStorage)
      op == [kind |-> "register", cleanName |-> username, normalized |-> normalized,
             password |-> password, captured |-> users,
             promise |-> NewPromise(pending)]
      fail(msg) ==
        /\ lastEvent' = [op |-> "register", result |-> msg]
        /\ UNCHANGED <<localStorage, tasks, currentAccount, viewVars, pending, registered>>
  IN /\ UNCHANGED <<envVars, nextId, createdBy>>
     /\ IF username = EmptyString \/ password = EmptyString
        THEN fail(MsgRegisterRequired)
        ELSE IF password # confirm THEN fail(MsgMismatch)
        ELSE IF registerUserThrows(username, password, users) # Null
        THEN fail(registerUserThrows(username, password, users)[1])
        ELSE IF webCrypto
        THEN /\ Len(pending) < MaxPending
             /\ pending' = Append(pending, op)
             /\ lastEvent' = [op |-> "register", result |-> Hashing]
             /\ UNCHANGED <<localStorage, tasks, currentAccount, viewVars, registered>>
        ELSE /\ RegisterFinish(op)
             /\ UNCHANGED pending

\* HashResolved where only the digest of a login ever resolves
HashResolvedLoginOnly(i) ==
  /\ i \in 1..Len(pending)
  /\ pending[i].kind = "login"
  /\ pending' = RemoveAt(pending, i)
  /\ UNCHANGED <<envVars, nextId, createdBy>>
  /\ AuthenticateFinish(pending[i])

\* the digest of the i-th suspended call resolves and the call resumes
HashResolved(i) ==
  /\ i \in 1..Len(pending)
  /\ pending' = RemoveAt(pending, i)
  /\ UNCHANGED <<envVars, nextId, createdBy>>
  /\ IF pending[i].kind = "login"
     THEN AuthenticateFinish(pending[i])
     ELSE RegisterFinish(pending[i])

\* click on the menu's sign-out entry
handleLogout ==
  /\ UNCHANGED <<pending, envVars, nextId, createdBy, registered>>
  /\ IF currentAccount # Null
     THEN /\ setCurrentAccount(Null, localStorage)
          /\ lastEvent' = [op |-> "logout", result |-> MsgSignedOut]
     ELSE /\ lastEvent' = [op |-> "logout", result |-> "none"]
          /\ UNCHANGED <<localStorage, tasks, currentAccount, viewVars>>

\* initialize that restores the account without loading its tasks
initializeWithoutLoad ==
  /\ pending' = <<>>
  /\ agendaScope' = "all"
  /\ agendaDate' = todayISO(now)
  /\ currentFilter' = "all"
  /\ currentSort' = defaultSortValue
  /\ currentAccount' = loadSessionAccount(localStorage)
  /\ IF loadSessionAccount(localStorage) # Null
     THEN localStorage' = SetItem(loadSessionStorage(localStorage), SESSION_KEY,
                                  loadSessionAccount(localStorage))
     ELSE localStorage' = loadSessionStorage(localStorage)
  /\ tasks' = <<>>
  /\ lastEvent' = [op |-> "startup", result |->
        IF loadSessionAccount(localStorage) # Null THEN "restored"
        ELSE IF SESSION_KEY \in DOMAIN localStorage THEN "discarded" ELSE "none"]
  /\ UNCHANGED <<envVars, nextId, createdBy, registered>>

\* Point d'entree: the page is loaded again, the module state starts over
\* and initialize() restores the session from localStorage
initialize ==
  /\ pending' = <<>>
  /\ agendaScope' = "all"
  /\ agendaDate' = todayISO(now)
  /\ currentFilter' = "all"
  /\ currentSort' = defaultSortValue
  /\ currentAccount' = loadSessionAccount(localStorage)
  /\ IF loadSessionAccount(localStorage) # Null
     THEN /\ localStorage' = SetItem(loadSessionStorage(localStorage), SESSION_KEY,
                                     loadSessionAccount(localStorage))
          /\ tasks' = loadTasks(localStorage, loadSessionAccount(localStorage).id, now)
     ELSE /\ localStorage' = loadSessionStorage(localStorage)
          /\ tasks' = <<>>
  /\ lastEvent' = [op |-> "startup", result |->
        IF loadSessionAccount(localStorage) # Null THEN "restored"
        ELSE IF SESSION_KEY \in DOMAIN localStorage THEN "discarded" ELSE "none"]
  /\ UNCHANGED <<envVars, nextId, createdBy, registered>>

\* time passes
Tick ==
  /\ now < MaxClock
  /\ now' = now + 1
  /\ lastEvent' = [op |-> "tick", result |-> "ok"]
  /\ UNCHANGED <<localStorage, tasks, currentAccount, viewVars, pending, nextId, webCrypto,
                 timeZone, createdBy, registered>>

Init ==
  /\ localStorage = <<>>
  /\ tasks = <<>>
  /\ currentAccount = Null
  /\ currentFilter = "all"
  /\ currentSort = defaultSortValue
  /\ agendaScope = "all"
  /\ timeZone = "UTC"
  /\ agendaDate = todayISO(0)
  /\ pending = <<>>
  /\ now = 0
  /\ nextId = 1
  /\ webCrypto \in BOOLEAN
  /\ createdBy = <<>>
  /\ registered = {}
  /\ lastEvent = [op |-> "startup", result |-> "none"]

\* the task handlers, with the values typed into the forms drawn from the
\* given sets
TaskEvents(titles, dues, priorities) ==
  \/ \E t \in titles, d \in dues, p \in priorities : NewTaskSubmit(t, d, p)
  \/ \E id \in KnownIds, checked \in BOOLEAN : ToggleChange(id, checked)
  \/ \E id \in KnownIds, v \in titles : EditSubmit(id, v)
  \/ \E id \in KnownIds, ok \in BOOLEAN : DeleteClick(id, ok)

\* the authentication handlers and the page load, with the values typed into
\* the forms drawn from the given sets
AuthEvents(usernames, passwords, confirms) ==
  \/ \E u \in usernames, p \in passwords : handleLogin(u, p)
  \/ \E u \in usernames, p \in passwords, c \in confirms : handleRegister(u, p, c)
  \/ handleLogout
  \/ initialize

(***************************************************************************)
(* Spec: accounts, session and the task collections of two accounts.  A    *)
(* digest takes far less time than a user needs for the next event: here   *)
(* no event arrives while a login or registration is suspended.  Tasks     *)
(* are created without due date and priority and the clock stands still.   *)
(***************************************************************************)
Next ==
  \/ pending = <<>> /\ TaskEvents(TitleInputs, {EmptyString}, {""})
  \/ pending = <<>> /\ AuthEvents(UsernameInputs, PasswordInputs, ConfirmInputs)
  \/ \E i \in 1..MaxPending : HashResolved(i)

Spec == Init /\ [][Next]_vars

(***************************************************************************)
(* SpecAsync: logins and registrations whose digests are computed while    *)
(* other events arrive, in every interleaving.  No task is created.        *)
(***************************************************************************)
NextAsync ==
  \/ AuthEvents({NameBob, NameBobPadded, NameAmy}, {PwSecret, PwShort}, {PwSecret})
  \/ \E i \in 1..MaxPending : HashResolved(i)

SpecAsync == Init /\ [][NextAsync]_vars

(***************************************************************************)
(* SpecHash: registrations and logins with passwords that the fallback of  *)
(* hashPassword can and cannot encode, with and without WebCrypto.         *)
(***************************************************************************)
NextHash ==
  \/ AuthEvents({NameBob, NameAmy}, {PwSecret, PwSurrogate}, {PwSecret, PwSurrogate})
  \/ \E i \in 1..MaxPending : HashResolved(i)

SpecHash == Init /\ [][NextHash]_vars

(***************************************************************************)
(* SpecStore: the task collection of one signed-in account while time      *)
(* passes.  It starts after "Bob" has registered and possibly created one  *)
(* task; tasks are created with or without a due date.                     *)
(***************************************************************************)
BobId == normalizeUsername(NameBob)

EarlierTask ==
  [id |-> 0, title |-> TitleA, completed |-> FALSE, createdAt |-> 0, updatedAt |-> 0,
   description |-> Null, dueAt |-> Null, priority |-> Null]

StoredAfterBob(subtle, list) ==
  (USERS_KEY :> (BobId :> [passwordHash |-> hashPassword(PwSecret, subtle),
                            displayName |-> NameBob, createdAt |-> 0]))
  @@ (SESSION_KEY :> [id |-> BobId, displayName |-> NameBob])
  @@ (getTaskStorageKey(BobId) :> JsonTasks(list))

InitStore ==
  /\ webCrypto \in BOOLEAN
  /\ timeZone = "UTC"
  /\ tasks \in {<<>>, <<EarlierTask>>}
  /\ localStorage = StoredAfterBob(webCrypto, tasks)
  /\ currentAccount = [id |-> BobId, displayName |-> NameBob]
  /\ currentFilter = "all"
  /\ currentSort = defaultSortValue
  /\ agendaScope = "all"
  /\ agendaDate = todayISO(0)
  /\ pending = <<>>
  /\ now = 0
  /\ nextId = 1
  /\ createdBy = [i \in {t.id : t \in {tasks[j] : j \in 1..Len(tasks)}} |-> BobId]
  /\ registered = {BobId}
  /\ lastEvent = [op |-> "startup", result |-> "restored"]

NextStore ==
  \/ pending = <<>> /\ TaskEvents(TitleInputs, {EmptyString, <<2024, 3, 1>>}, {"high"})
  \/ pending = <<>> /\ AuthEvents({NameBob}, {PwSecret}, {PwSecret})
  \/ pending = <<>> /\ Tick
  \/ \E i \in 1..MaxPending : HashResolved(i)

SpecStore == InitStore /\ [][NextStore]_vars

(***************************************************************************)
(* SpecView: the view of one signed-in account's collection while the      *)
(* status filter, the sort key and the agenda are operated, in three time  *)
(* zones.  The collection is fixed: either the two tasks A (due            *)
(* 2024-03-01) and B (undated), or five tasks around two week boundaries.  *)
(***************************************************************************)
ViewTask(id, completed, dueAt, priority, createdAt) ==
  [id |-> id, title |-> TitleA, completed |-> completed, createdAt |-> createdAt,
   updatedAt |-> createdAt, description |-> Null, dueAt |-> dueAt, priority |-> priority]

ViewCollections ==
  { << ViewTask(2, FALSE, Null, Null, 1),
       ViewTask(1, FALSE, <<2024, 3, 1>>, Null, 0) >>,
    << ViewTask(5, FALSE, <<2024, 10, 6>>, Some("low"), 1),
       ViewTask(4, TRUE, <<2024, 1, 7>>, Some("high"), 1),
       ViewTask(3, FALSE, <<2024, 1, 8>>, Null, 0),
       ViewTask(2, FALSE, <<2024, 1, 1>>, Some("med"), 0),
       ViewTask(1, TRUE, Null, Null, 0) >> }

InitSignedIn(zones, collections) ==
  /\ webCrypto = TRUE
  /\ timeZone \in zones
  /\ tasks \in collections
  /\ localStorage = StoredAfterBob(webCrypto, tasks)
  /\ currentAccount = [id |-> BobId, displayName |-> NameBob]
  /\ currentFilter = "all"
  /\ currentSort = defaultSortValue
  /\ agendaScope = "all"
  /\ now = 0
  /\ agendaDate = todayISO(0)
  /\ pending = <<>>
  /\ nextId = Len(tasks) + 1
  /\ createdBy = [i \in 1..Len(tasks) |-> BobId]
  /\ registered = {BobId}
  /\ lastEvent = [op |-> "startup", result |-> "restored"]

InitView == InitSignedIn(TimeZones, ViewCollections)

NextView ==
  \/ \E value \in FilterValues : FilterClick(value)
  \/ \E value \in SortValues : SortChange(value)
  \/ \E value \in AgendaDateInputs : AgendaDateChange(value)
  \/ AgendaPrevClick
  \/ AgendaNextClick
  \/ AgendaTodayClick
  \/ \E value \in ScopeValues : AgendaScopeChange(value)

SpecView == InitView /\ [][NextView]_vars

(***************************************************************************)
(* SpecSort: the order of the view.  The collection has MaxTasks tasks,     *)
(* each with one of six pairs of due date and priority and one of two      *)
(* creation times, in every order; the second task is completed.  The      *)
(* agenda shows all dates.                                                 *)
(***************************************************************************)
MaxTasks == 3

\* <<dueAt, priority>>
SortKeys ==
  { <<Null, Null>>, <<Null, Some("high")>>,
    <<<<2024, 3, 1>>, Some("high")>>, <<<<2024, 3, 1>>, Some("low")>>,
    <<<<2024, 3, 2>>, Some("med")>>, <<<<2024, 3, 2>>, Null>> }
SortClocks == {0, 1}

SortCollections ==
  { [i \in 1..MaxTasks |->
       ViewTask(MaxTasks + 1 - i, i = 2, key[i][1], key[i][2], created[i])] :
    key \in [1..MaxTasks -> SortKeys],
    created \in [1..MaxTasks -> SortClocks] }

InitSort == InitSignedIn({"UTC"}, SortCollections)

NextSort ==
  \/ \E value \in SortValues : SortChange(value)
  \/ \E value \in FilterValues : FilterClick(value)

SpecSort == InitSort /\ [][NextSort]_vars

(***************************************************************************)
(* SpecTwo: two registered accounts, "Bob" and "Amy", each with one task   *)
(* stored, on a page where nobody is signed in.  They sign in and out,     *)
(* the page is loaded again, and tasks are created, changed and deleted.   *)
(* WebCrypto is absent, so a login completes within its event.             *)
(***************************************************************************)
AmyId == normalizeUsername(NameAmy)

StoredForTwo ==
  (USERS_KEY :> ((BobId :> [passwordHash |-> hashPassword(PwSecret, FALSE),
                            displayName |-> NameBob, createdAt |-> 0])
                 @@ (AmyId :> [passwordHash |-> hashPassword(PwSecret, FALSE),
                               displayName |-> NameAmy, createdAt |-> 0])))
  @@ (getTaskStorageKey(BobId) :> JsonTasks(<<ViewTask(0, FALSE, <<2024, 3, 1>>, Null, 0)>>))
  @@ (getTaskStorageKey(AmyId) :> JsonTasks(<<ViewTask(2, FALSE, <<2024, 3, 9>>, Some("low"), 0)>>))

InitTwo ==
  /\ webCrypto = FALSE
  /\ timeZone = "UTC"
  /\ tasks = <<>>
  /\ localStorage = StoredForTwo
  /\ currentAccount = Null
  /\ currentFilter = "all"
  /\ currentSort = defaultSortValue
  /\ agendaScope = "all"
  /\ agendaDate = todayISO(0)
  /\ pending = <<>>
  /\ now = 0
  /\ nextId = 1
  /\ createdBy = (0 :> BobId) @@ (2 :> AmyId)
  /\ registered = {BobId, AmyId}
  /\ lastEvent = [op |-> "startup", result |-> "none"]

NextTwo ==
  \/ TaskEvents({TitleBPadded}, {EmptyString}, {""})
  \/ AuthEvents({NameBob, NameAmy}, {PwSecret, PwShort}, {PwSecret})

SpecTwo == InitTwo /\ [][NextTwo]_vars

(***************************************************************************)
(* SpecTwoView: the two accounts of SpecTwo sign in and out and the page   *)
(* is loaded again while the signed-in user operates filter, sort key and  *)
(* agenda; the collections stay as they are stored.                        *)
(***************************************************************************)
\* filter buttons and agenda controls are disabled while nobody is signed in
NextTwoView ==
  \/ AuthEvents({NameBob, NameAmy}, {PwSecret, PwShort}, {PwSecret})
  \/ currentAccount # Null /\ \E value \in FilterValues : FilterClick(value)
  \/ currentAccount # Null /\ \E value \in SortValues : SortChange(value)
  \/ currentAccount # Null /\ \E value \in ScopeValues : AgendaScopeChange(value)
  \/ currentAccount # Null /\ AgendaNextClick
  \/ currentAccount # Null /\ AgendaPrevClick

SpecTwoView == InitTwo /\ [][NextTwoView]_vars

(***************************************************************************)
(* SpecToday: the agenda's "today" at instants spread over 2024, in three  *)
(* time zones: instants where the local date is that of UTC, where it is   *)
(* the day after or the day before, and instants in the hours around the   *)
(* changes to and from summer time.                                        *)
(***************************************************************************)
\* the clock value at y-m-d h:mi UTC
Instant(y, m, d, h, mi) ==
  (DaysFromCivil(y, m, d) - StartDay) * MinutesPerDay + h * MinutesPerHour + mi

TodayInstants ==
  { Instant(2024, 3, 1, 0, 0), Instant(2024, 3, 1, 13, 30), Instant(2024, 3, 2, 3, 0),
    Instant(2024, 3, 10, 6, 30), Instant(2024, 3, 10, 7, 30),
    Instant(2024, 4, 6, 12, 30), Instant(2024, 4, 6, 16, 30),
    Instant(2024, 10, 5, 14, 30), Instant(2024, 10, 5, 16, 30),
    Instant(2024, 11, 3, 4, 30), Instant(2024, 11, 3, 6, 30) }

\* time passes until one of the given instants
ClockAdvances(instants) ==
  /\ \E t \in instants : now < t /\ now' = t
  /\ lastEvent' = [op |-> "tick", result |-> "ok"]
  /\ UNCHANGED <<localStorage, tasks, currentAccount, viewVars, pending, nextId, webCrypto,
                 timeZone, createdBy, registered>>

InitToday ==
  /\ webCrypto = TRUE
  /\ timeZone \in TimeZones
  /\ tasks = <<ViewTask(1, FALSE, <<2024, 3, 1>>, Null, 0)>>
  /\ localStorage = StoredAfterBob(webCrypto, tasks)
  /\ currentAccount = [id |-> BobId, displayName |-> NameBob]
  /\ currentFilter = "all"
  /\ currentSort = defaultSortValue
  /\ agendaScope = "all"
  /\ now \in TodayInstants
  /\ agendaDate = todayISO(now)
  /\ pending = <<>>
  /\ nextId = 2
  /\ createdBy = (1 :> BobId)
  /\ registered = {BobId}
  /\ lastEvent = [op |-> "startup", result |-> "restored"]

NextToday ==
  \/ AgendaTodayClick
  \/ \E value \in {EmptyString, <<2024, 3, 1>>} : AgendaDateChange(value)
  \/ \E value \in ScopeValues : AgendaScopeChange(value)
  \/ ClockAdvances(TodayInstants)

SpecToday == InitToday /\ [][NextToday]_vars

(***************************************************************************)
(* SpecLive: logins, registrations and sign-outs within one page load,     *)
(* with digests computed while other events arrive.  Every digest that     *)
(* was requested is eventually delivered: crypto.subtle.digest settles     *)
(* its promise and the event loop runs the continuation.                   *)
(***************************************************************************)
NextLive ==
  \/ \E u \in {NameBob, NameAmy}, p \in {PwSecret, PwShort} : handleLogin(u, p)
  \/ \E u \in {NameBob, NameAmy}, p \in {PwSecret, PwShort} : handleRegister(u, p, PwSecret)
  \/ handleLogout
  \/ \E i \in 1..MaxPending : HashResolved(i)

SpecLive ==
  Init /\ [][NextLive]_vars /\ \A i \in 1..MaxPending : WF_vars(HashResolved(i))

(***************************************************************************)
(* SpecLoad: the collection of "Bob" is loaded from a storage value the    *)
(* application finds at sign-in or at page load.  "Bob" is registered and  *)
(* signed out; under the key of his tasks there is nothing, a text that    *)
(* is not JSON, a JSON object, an array with records the application       *)
(* would not have written, or a collection saved by saveTasks.  WebCrypto  *)
(* is absent, so a login completes within its event.                       *)
(***************************************************************************)
LoadTask(id, title, completed, description, dueAt, priority) ==
  [id |-> id, title |-> title, completed |-> completed, createdAt |-> 0,
   updatedAt |-> 0, description |-> description, dueAt |-> dueAt, priority |-> priority]

WellFormedCollections ==
  { << LoadTask(2, Trim(TitleBPadded), TRUE, Some(TitleA), <<2024, 2, 29>>, Some("med")),
       LoadTask(0, TitleA, FALSE, Null, Null, Null) >>,
    << LoadTask(0, TitleA, FALSE, Null, <<2024, 3, 1>>, Some("high")) >> }

\* records with an unparseable due date and an unknown priority, without
\* id, well formed, and without title
ForeignMalformed ==
  << [id |-> 2, title |-> TitleA, completed |-> TRUE, createdAt |-> 0, updatedAt |-> 0,
      description |-> TitleA, dueAt |-> <<2024, 13, 1>>, priority |-> "urgent"],
     [title |-> TitleA, completed |-> FALSE, createdAt |-> 0, updatedAt |-> 0],
     [id |-> 0, title |-> TitleA, completed |-> FALSE, createdAt |-> 0, updatedAt |-> 0,
      dueAt |-> <<2024, 3, 1>>, priority |-> "low"],
     [id |-> 1, completed |-> FALSE, createdAt |-> 0, updatedAt |-> 0] >>

ForeignNoCreatedAt ==
  << [id |-> 0, title |-> TitleA, completed |-> FALSE, updatedAt |-> 0] >>

ForeignDuplicateIds ==
  << [id |-> 0, title |-> TitleA, completed |-> FALSE, createdAt |-> 0, updatedAt |-> 0],
     [id |-> 0, title |-> Trim(TitleBPadded), completed |-> FALSE, createdAt |-> 0,
      updatedAt |-> 0] >>

ForeignEmptyTitle ==
  << [id |-> 0, title |-> EmptyString, completed |-> FALSE, createdAt |-> 0,
      updatedAt |-> 0] >>

\* the values found under the key of the tasks; Null when the key is missing
StoredValues ==
  {Null}
  \cup {Some(UnparseableJson), Some(JsonObject([id |-> 0, title |-> TitleA]))}
  \cup {Some(ForeignMalformed), Some(ForeignNoCreatedAt), Some(ForeignDuplicateIds),
        Some(ForeignEmptyTitle)}
  \cup {Some(JsonTasks(list)) : list \in WellFormedCollections}

InitLoad ==
  /\ webCrypto = FALSE
  /\ timeZone = "UTC"
  /\ tasks = <<>>
  /\ \E stored \in StoredValues :
       localStorage =
         (USERS_KEY :> (BobId :> [passwordHash |-> hashPassword(PwSecret, webCrypto),
                                   displayName |-> NameBob, createdAt |-> 0]))
         @@ (IF stored = Null THEN <<>> ELSE (getTaskStorageKey(BobId) :> stored[1]))
  /\ currentAccount = Null
  /\ currentFilter = "all"
  /\ currentSort = defaultSortValue
  /\ agendaScope = "all"
  /\ agendaDate = todayISO(0)
  /\ pending = <<>>
  /\ now = 0
  /\ nextId = 1
  /\ createdBy = <<>>
  /\ registered = {BobId}
  /\ lastEvent = [op |-> "startup", result |-> "none"]

NextLoad ==
  \/ TaskEvents({EmptyString, TitleBPadded}, {EmptyString}, {""})
  \/ AuthEvents({NameBob}, {PwSecret}, {PwSecret})
  \/ Tick

SpecLoad == InitLoad /\ [][NextLoad]_vars

(***************************************************************************)
(* Properties.                                                             *)
(***************************************************************************)
\* the JSON collection stored for an account, empty when there is none
Persisted(ls, id) ==
  IF getTaskStorageKey(id) \in DOMAIN ls THEN ls[getTaskStorageKey(id)] ELSE <<>>

\* some task with this id has every property of `fields` at the given value
PatchMatches(list, id, fields) ==
  \E i \in 1..Len(list) :
     list[i].id = id /\ \A k \in DOMAIN fields : list[i][k] = fields[k]

HasTask(list, id) == \E i \in 1..Len(list) : list[i].id = id

\* C1: the collection in memory is empty when nobody is signed in; otherwise
\* each of its tasks is stored under the active account's key and was
\* created while that same account was active.
C1_TasksBelongToActiveAccount ==
  /\ currentAccount = Null => tasks = <<>>
  /\ currentAccount # Null =>
       \A i \in 1..Len(tasks) :
          /\ \E j \in 1..Len(Persisted(localStorage, currentAccount.id)) :
                Persisted(localStorage, currentAccount.id)[j] = JsonTask(tasks[i])
          /\ createdBy[tasks[i].id] = currentAccount.id

\* an account was signed in while another account has tasks stored
C1_Witness ==
  /\ currentAccount # Null
  /\ lastEvent.op \in {"login", "register"}
  /\ tasks = <<>>
  /\ \E id \in registered : id # currentAccount.id /\ Persisted(localStorage, id) # <<>>

\* C2: write-through.  While an account is active and no login or
\* registration is suspended, loading what is stored under the account's key
\* gives exactly the collection in memory.
C2_WriteThrough ==
  (pending = <<>> /\ currentAccount # Null) =>
     loadTasks(localStorage, currentAccount.id, now) = tasks

\* a task was just changed by an update
C2_Witness ==
  /\ currentAccount # Null
  /\ pending = <<>>
  /\ lastEvent = [op |-> "update", result |-> "changed"]
  /\ tasks # <<>>

\* C3: an update whose fields all equal the task's current values changes
\* neither the collection in memory (updatedAt included) nor the storage.
C3_IdenticalPatchIsNoOp ==
  [][\A id \in KnownIds :
       /\ \A checked \in BOOLEAN :
            (/\ currentAccount # Null
             /\ PatchMatches(tasks, id, [completed |-> checked])
             /\ ToggleChange(id, checked))
            => (tasks' = tasks /\ localStorage' = localStorage)
       /\ \A v \in TitleInputs :
            (/\ currentAccount # Null
             /\ PatchMatches(tasks, id, [title |-> Trim(v)])
             /\ EditSubmit(id, v))
            => (tasks' = tasks /\ localStorage' = localStorage)]_vars

\* an update left a task alone whose updatedAt is older than the clock
C3_Witness ==
  /\ lastEvent = [op |-> "update", result |-> "same"]
  /\ \E i \in 1..Len(tasks) : tasks[i].updatedAt < now

\* what an update of task `id` with `fields` must do to the collection and
\* the storage
UpdateEffect(id, fields) ==
  /\ Len(tasks') = Len(tasks)
  /\ \A i \in 1..Len(tasks) :
       IF tasks[i].id = id
       THEN /\ DOMAIN tasks'[i] = DOMAIN tasks[i]
            /\ tasks'[i].updatedAt = now
            /\ \A k \in DOMAIN fields : tasks'[i][k] = fields[k]
            /\ \A k \in DOMAIN tasks[i] \ (DOMAIN fields \cup {"updatedAt"}) :
                  tasks'[i][k] = tasks[i][k]
       ELSE tasks'[i] = tasks[i]
  /\ loadTasks(localStorage', currentAccount.id, now) = tasks'
  /\ \A k \in DOMAIN localStorage \cup DOMAIN localStorage' :
       k # getTaskStorageKey(currentAccount.id) =>
          k \in DOMAIN localStorage /\ k \in DOMAIN localStorage'
          /\ localStorage'[k] = localStorage[k]

\* C4: an update that changes a field of an existing task stamps that task
\* with the time of the update, changes nothing else in it, leaves the other
\* tasks and the order alone, and stores the result.
C4_ChangingPatchBumpsAndPersists ==
  [][\A id \in KnownIds :
       /\ \A checked \in BOOLEAN :
            (/\ currentAccount # Null
             /\ HasTask(tasks, id)
             /\ ~PatchMatches(tasks, id, [completed |-> checked])
             /\ ToggleChange(id, checked))
            => UpdateEffect(id, [completed |-> checked])
       /\ \A v \in TitleInputs :
            (/\ currentAccount # Null
             /\ HasTask(tasks, id)
             /\ Trim(v) # EmptyString
             /\ ~PatchMatches(tasks, id, [title |-> Trim(v)])
             /\ EditSubmit(id, v))
            => UpdateEffect(id, [title |-> Trim(v)])]_vars

\* one of two tasks was changed after the clock had advanced
C4_Witness ==
  /\ lastEvent.op \in {"update", "edit"}
  /\ lastEvent.result = "changed"
  /\ Len(tasks) >= 2
  /\ \E i \in 1..Len(tasks) : tasks[i].updatedAt > tasks[i].createdAt

\* C5: with nobody signed in, a create, toggle, edit or delete changes
\* neither the collection in memory nor anything in storage.
C5_RejectedWhenSignedOut ==
  [][(currentAccount = Null /\ lastEvent'.op \in {"create", "update", "edit", "delete"})
       => (tasks' = tasks /\ localStorage' = localStorage)]_vars

\* a create was refused while an account's tasks are in storage
C5_Witness ==
  /\ currentAccount = Null
  /\ lastEvent = [op |-> "create", result |-> MsgSignIn]
  /\ \E id \in registered : Persisted(localStorage, id) # <<>>

\* a registration that passes the checks made before the conflict check
ValidRegistration(u, p, c) ==
  /\ Len(Trim(u)) >= 3
  /\ Len(p) >= 6
  /\ p = c

\* C6: once a registration has succeeded for a username, a later
\* registration whose normalized username is the same fails with the
\* conflict error and leaves the users table as it is.
C6_LaterRegisterConflicts ==
  [][\A u \in UsernameInputs, p \in PasswordInputs, c \in ConfirmInputs :
       (/\ normalizeUsername(u) \in registered
        /\ ValidRegistration(u, p, c)
        /\ handleRegister(u, p, c))
       => (/\ lastEvent'.result = MsgTaken
           /\ loadUsers(localStorage') = loadUsers(localStorage))]_vars

\* what the claim says a finished login for `normalized` must answer, given
\* the record (or none) the users table holds for it
LoginOutcome(normalized, password, record) ==
  IF record = Null THEN lastEvent'.result = MsgNotFound
  ELSE IF record[1].passwordHash # hashPassword(password, webCrypto)
  THEN lastEvent'.result = MsgIncorrect
  ELSE /\ lastEvent'.result = MsgSignedIn
       /\ currentAccount' = [id |-> normalized, displayName |-> record[1].displayName]

OwnRecord(users, normalized) ==
  IF normalized \in DOMAIN users THEN Some(users[normalized]) ELSE Null

\* C7: a login fails with "not found" iff the users table has no account
\* under the normalized username, else with "incorrect password" iff the
\* hash of the password differs from the stored one, else it signs in the
\* account with the normalized id and the registered display name.
C7_AuthenticateOutcome ==
  [][/\ \A u \in UsernameInputs, p \in PasswordInputs :
          (Trim(u) # EmptyString /\ p # EmptyString /\ handleLogin(u, p))
          => \/ /\ lastEvent'.result = Hashing
                /\ normalizeUsername(u) \in DOMAIN loadUsers(localStorage)
             \/ LoginOutcome(normalizeUsername(u), p,
                             OwnRecord(loadUsers(localStorage), normalizeUsername(u)))
     /\ \A i \in 1..Len(pending) :
          (pending[i].kind = "login" /\ HashResolved(i))
          => LoginOutcome(pending[i].normalized, pending[i].password,
                          OwnRecord(pending[i].captured, pending[i].normalized))]_vars

ValidationMessages == {MsgRegisterRequired, MsgMismatch, MsgUsernameShort, MsgPasswordShort}

\* C8: a registration with a trimmed username shorter than 3 or a password
\* shorter than 6 ends with a validation message, stores no account and
\* creates no session.
C8_RegisterValidation ==
  [][\A u \in UsernameInputs, p \in PasswordInputs, c \in ConfirmInputs :
       ((Len(Trim(u)) < 3 \/ Len(p) < 6) /\ handleRegister(u, p, c))
       => (/\ lastEvent'.result \in ValidationMessages
           /\ localStorage' = localStorage
           /\ currentAccount' = currentAccount
           /\ pending' = pending
           /\ registered' = registered)]_vars

\* a registration was refused for its length after another one had succeeded
C8_Witness ==
  /\ lastEvent.op = "register"
  /\ lastEvent.result \in {MsgUsernameShort, MsgPasswordShort}
  /\ registered # {}

\* the session pointer names an account that the users table does not hold
StaleSession(ls) ==
  /\ SESSION_KEY \in DOMAIN ls
  /\ ls[SESSION_KEY].id \notin DOMAIN loadUsers(ls)

\* C9: a page load that finds a session pointer to a missing account starts
\* signed out, removes the pointer and leaves the users table as it is.
C9_StaleSessionDiscarded ==
  [][(StaleSession(localStorage) /\ lastEvent'.op = "startup")
       => (/\ currentAccount' = Null
           /\ tasks' = <<>>
           /\ SESSION_KEY \notin DOMAIN localStorage'
           /\ loadUsers(localStorage') = loadUsers(localStorage))]_vars

\* the page was loaded with a pointer to an account that had been lost
C9_Witness ==
  /\ lastEvent = [op |-> "startup", result |-> "discarded"]
  /\ currentAccount = Null
  /\ SESSION_KEY \notin DOMAIN localStorage
  /\ \E id \in registered : id \notin DOMAIN loadUsers(localStorage)

\* C10: while no login or registration is suspended, the session pointer is
\* stored iff an account is active, and then names that account.
C10_OneSession ==
  pending = <<>> =>
    /\ (SESSION_KEY \in DOMAIN localStorage) <=> (currentAccount # Null)
    /\ currentAccount # Null => localStorage[SESSION_KEY].id = currentAccount.id

\* a login replaced the session of another account
C10_Witness ==
  /\ pending = <<>>
  /\ lastEvent = [op |-> "login", result |-> MsgSignedIn]
  /\ currentAccount # Null
  /\ Cardinality(registered) >= 2

\* C11: the passwordHash a registration stores differs from the password
\* that was registered, with WebCrypto and on the fallback path.
C11_HashNeverPlaintext ==
  [][/\ \A u \in {NameBob, NameAmy}, p \in {PwSecret, PwSurrogate} :
          (handleRegister(u, p, p) /\ lastEvent'.result = MsgCreated)
          => loadUsers(localStorage')[normalizeUsername(u)].passwordHash # p
     /\ \A i \in 1..Len(pending) :
          (pending[i].kind = "register" /\ HashResolved(i))
          => loadUsers(localStorage')[pending[i].normalized].passwordHash
               # pending[i].password]_vars

\* C12: of the registrations for one normalized username at most one
\* succeeds: a registration does not complete with success for a username
\* whose registration has already succeeded.
C12_AtMostOneRegisterSucceeds ==
  [][\A i \in 1..Len(pending) :
       (pending[i].kind = "register" /\ HashResolved(i) /\ lastEvent'.result = MsgCreated)
       => pending[i].normalized \notin registered]_vars

\* C13: the record of a registered account stays in the users table, with
\* the same passwordHash, displayName and createdAt, whatever happens next.
C13_RecordNeverChanges ==
  [][\A id \in registered :
       id \in DOMAIN loadUsers(localStorage)
       => /\ id \in DOMAIN loadUsers(localStorage')
          /\ loadUsers(localStorage')[id] = loadUsers(localStorage)[id]]_vars

\* the day number of a date, the ids of a sequence of tasks, and the Monday
\* of the week of a date (1970-01-01 was a Thursday)
DayNumber(date) == DaysFromCivil(date[1], date[2], date[3])
IdsOf(list) == {list[i].id : i \in 1..Len(list)}
MondayOf(date) == DayNumber(date) - ((DayNumber(date) + 3) % 7)

\* the status filter and the agenda window as the specification states them
StatusMatches(task) ==
  /\ currentFilter = "active" => ~task.completed
  /\ currentFilter = "completed" => task.completed

InAgendaWindow(task) ==
  /\ agendaScope = "day" => task.dueAt # Null /\ task.dueAt = agendaDate
  /\ agendaScope = "week" =>
       /\ task.dueAt # Null
       /\ MondayOf(agendaDate) <= DayNumber(task.dueAt)
       /\ DayNumber(task.dueAt) <= MondayOf(agendaDate) + 6

\* C14: the visible tasks are exactly the status-filtered tasks due on the
\* anchor date (scope day), due within Monday..Sunday of the anchor's week
\* (scope week), or all of them (scope all); an undated task is not
\* visible under scope day or week.
C14_AgendaWindow ==
  IdsOf(getVisibleTasks)
    = {tasks[i].id : i \in {j \in 1..Len(tasks) :
                               StatusMatches(tasks[j]) /\ InAgendaWindow(tasks[j])}}

\* C15: of the tasks the agenda window lets through, the visible ones are
\* exactly those with completed=false under filter active, exactly those
\* with completed=true under filter completed, and all of them under all.
C15_StatusFilter ==
  IdsOf(getVisibleTasks)
    = {tasks[i].id : i \in {j \in 1..Len(tasks) :
                               StatusMatches(tasks[j]) /\ AgendaKeeps(tasks[j])}}

\* filter active within a week that holds an active and a completed task
C15_Witness ==
  /\ currentFilter = "active"
  /\ agendaScope = "week"
  /\ Len(getVisibleTasks) = 1
  /\ \E i \in 1..Len(tasks) : tasks[i].completed /\ AgendaKeeps(tasks[i])
  /\ \E i \in 1..Len(tasks) : ~tasks[i].completed /\ ~AgendaKeeps(tasks[i])

\* C16: under sort key dueAt every dated task precedes every undated one,
\* dated tasks are in non-decreasing order of due date, and tasks with the
\* same due date, or both undated, are ordered by createdAt descending.
C16_SortByDueAt ==
  currentSort = "dueAt" =>
    \A i, j \in 1..Len(getVisibleTasks) :
      i < j =>
        LET a == getVisibleTasks[i]
            b == getVisibleTasks[j]
        IN /\ a.dueAt = Null => b.dueAt = Null
           /\ (a.dueAt # Null /\ b.dueAt # Null) => DayNumber(a.dueAt) <= DayNumber(b.dueAt)
           /\ a.dueAt = b.dueAt => a.createdAt >= b.createdAt

\* sorted by due date: an undated task that is first in the collection is
\* shown last, behind two tasks with the same due date
C16_Witness ==
  /\ currentSort = "dueAt"
  /\ lastEvent.op = "sort"
  /\ Len(getVisibleTasks) = 3
  /\ tasks[1].dueAt = Null
  /\ getVisibleTasks[3] = tasks[1]
  /\ getVisibleTasks[1].dueAt = getVisibleTasks[2].dueAt
  /\ getVisibleTasks[1].createdAt > getVisibleTasks[2].createdAt

\* rank of a priority: high before med before low before none
PriorityRankOf(task) ==
  IF task.priority = Some("high") THEN 0
  ELSE IF task.priority = Some("med") THEN 1
  ELSE IF task.priority = Some("low") THEN 2
  ELSE 3

\* C17: under sort key priority the visible tasks are ordered high, med,
\* low, none, and tasks of equal rank by createdAt descending.
C17_SortByPriority ==
  currentSort = "priority" =>
    \A i, j \in 1..Len(getVisibleTasks) :
      i < j =>
        /\ PriorityRankOf(getVisibleTasks[i]) <= PriorityRankOf(getVisibleTasks[j])
        /\ PriorityRankOf(getVisibleTasks[i]) = PriorityRankOf(getVisibleTasks[j])
             => getVisibleTasks[i].createdAt >= getVisibleTasks[j].createdAt

\* sorted by priority: the collection holds none, low, high in this order
\* and is shown as high, low, none
C17_Witness ==
  /\ currentSort = "priority"
  /\ lastEvent.op = "sort"
  /\ Len(getVisibleTasks) = 3
  /\ PriorityRankOf(tasks[1]) = 3 /\ PriorityRankOf(tasks[2]) = 2 /\ PriorityRankOf(tasks[3]) = 0
  /\ getVisibleTasks = <<tasks[3], tasks[2], tasks[1]>>

\* position of a task in the collection
PositionOf(task) == CHOOSE i \in 1..Len(tasks) : tasks[i].id = task.id

\* two tasks tie on the current sort key and on createdAt
SortTie(a, b) ==
  /\ a.createdAt = b.createdAt
  /\ currentSort = "dueAt" => a.dueAt = b.dueAt
  /\ currentSort = "priority" => PriorityRankOf(a) = PriorityRankOf(b)

\* C18: under sort key created the visible tasks are ordered by createdAt
\* descending; under every sort key the visible sequence holds exactly the
\* filtered and windowed tasks, each once, and tasks that tie on the sort
\* key and on createdAt keep their order in the collection.
C18_SortByCreatedAndStable ==
  LET kept == SelectSeq(SelectSeq(tasks, StatusKeeps), AgendaKeeps)
  IN /\ currentSort = "created" =>
          \A i, j \in 1..Len(getVisibleTasks) :
            i < j => getVisibleTasks[i].createdAt >= getVisibleTasks[j].createdAt
     /\ Len(getVisibleTasks) = Len(kept)
     /\ {getVisibleTasks[i] : i \in 1..Len(getVisibleTasks)} = {kept[i] : i \in 1..Len(kept)}
     /\ \A i, j \in 1..Len(getVisibleTasks) :
          (i < j /\ SortTie(getVisibleTasks[i], getVisibleTasks[j]))
          => PositionOf(getVisibleTasks[i]) < PositionOf(getVisibleTasks[j])

\* sorted by creation: the oldest task is first in the collection and shown
\* last, behind two tasks that tie and keep their order
C18_Witness ==
  /\ currentSort = "created"
  /\ lastEvent.op = "sort"
  /\ currentFilter = "all"
  /\ tasks[1].createdAt < tasks[2].createdAt
  /\ tasks[2].createdAt = tasks[3].createdAt
  /\ getVisibleTasks = <<tasks[2], tasks[3], tasks[1]>>

\* C19: the week range of the anchor date starts on a Monday, ends on the
\* Sunday six days later and contains the anchor.
C19_WeekRange ==
  /\ DayNumber(getWeekRangeISO(agendaDate).start) = MondayOf(getWeekRangeISO(agendaDate).start)
  /\ DayNumber(getWeekRangeISO(agendaDate).end) = DayNumber(getWeekRangeISO(agendaDate).start) + 6
  /\ DayNumber(getWeekRangeISO(agendaDate).start) <= DayNumber(agendaDate)
  /\ DayNumber(agendaDate) <= DayNumber(getWeekRangeISO(agendaDate).end)

\* numbers of days added to the anchor date
DayDeltas == {-31, -1, 1, 29, 31}

\* C20: addDays gives the date exactly delta days after the anchor date,
\* and the next-day step followed by the previous-day step gives the anchor
\* date back.
C20_AddDays ==
  /\ \A delta \in DayDeltas :
        DayNumber(addDaysISO(agendaDate, delta)) = DayNumber(agendaDate) + delta
  /\ addDaysISO(addDaysISO(agendaDate, 1), -1) = agendaDate

\* C21: every task of the collection in memory was last updated at or after
\* the time it was created, whatever was created, updated, deleted or loaded
\* before.
C21_UpdatedNotBeforeCreated ==
  \A i \in 1..Len(tasks) : tasks[i].updatedAt >= tasks[i].createdAt

\* C22: a create with a title that is not blank, while an account is signed
\* in, puts exactly one new task in front of the unchanged previous tasks,
\* not completed and with createdAt = updatedAt = now, and stores the
\* collection; a create with a blank title changes nothing.
C22_CreateEffect ==
  [][\A t \in TitleInputs, d \in DueInputs, p \in PriorityInputs :
        (currentAccount # Null /\ NewTaskSubmit(t, d, p)) =>
           IF Trim(t) # EmptyString
           THEN /\ Len(tasks') = Len(tasks) + 1
                /\ Tail(tasks') = tasks
                /\ ~HasTask(tasks, Head(tasks').id)
                /\ Head(tasks').title = Trim(t)
                /\ Head(tasks').completed = FALSE
                /\ Head(tasks').createdAt = now
                /\ Head(tasks').updatedAt = Head(tasks').createdAt
                /\ Persisted(localStorage', currentAccount.id) = JsonTasks(tasks')
           ELSE tasks' = tasks /\ localStorage' = localStorage]_vars

\* a task was created in front of an earlier one
C22_Witness ==
  /\ lastEvent = [op |-> "create", result |-> "created"]
  /\ Len(tasks) = 2
  /\ tasks[2] = EarlierTask
  /\ tasks[1].createdAt = now

\* the step is a sign-in or a page load that loaded the collection of "Bob"
LoadsBob ==
  /\ \/ lastEvent' = [op |-> "login", result |-> MsgSignedIn]
     \/ lastEvent' = [op |-> "startup", result |-> "restored"]
  /\ getTaskStorageKey(BobId) \in DOMAIN localStorage

\* a due date is a calendar date
IsCalendarDate(date) ==
  /\ Len(date) = 3
  /\ date[2] \in 1..12
  /\ date[3] \in 1..DaysInMonth(date[1], date[2])

\* a task as the data model describes it
WellFormedTask(task) ==
  /\ task.title # EmptyString
  /\ task.completed \in BOOLEAN
  /\ task.dueAt = Null \/ IsCalendarDate(task.dueAt)
  /\ task.priority \in {Null, Some("low"), Some("med"), Some("high")}

\* C23: when a collection of well-formed tasks was saved for an account and
\* the account is loaded, the collection in memory equals the saved one,
\* field for field and in the same order.
C23_SaveLoadRoundTrip ==
  [][\A list \in WellFormedCollections \cup {tasks} :
        (/\ LoadsBob
         /\ \A i \in 1..Len(list) : WellFormedTask(list[i])
         /\ localStorage = saveTasks(localStorage, [id |-> BobId, displayName |-> NameBob], list))
        => tasks' = list]_vars

\* a saved collection of two tasks, one with description, due date and
\* priority, was loaded at a later time than it was written
C23_Witness ==
  /\ lastEvent.op \in {"login", "startup"}
  /\ now = 1
  /\ Len(tasks) = 2
  /\ tasks \in WellFormedCollections
  /\ Persisted(localStorage, BobId) = JsonTasks(tasks)

\* the stored value is an array of records
IsRecordArray(value) == \A i \in 1..Len(value) : "json" \notin DOMAIN value[i]

HasIdAndTitle(record) == "id" \in DOMAIN record /\ "title" \in DOMAIN record

\* the task is the record with a due date that is no calendar date and a
\* priority that is none of low, med, high taken away
LoadedAs(task, record) ==
  /\ task.id = record.id
  /\ task.title = record.title
  /\ \A k \in {"completed", "createdAt", "updatedAt"} :
        k \in DOMAIN record => task[k] = record[k]
  /\ task.description = IF "description" \in DOMAIN record THEN Some(record.description) ELSE Null
  /\ task.dueAt = IF "dueAt" \in DOMAIN record /\ IsCalendarDate(record.dueAt)
                  THEN record.dueAt ELSE Null
  /\ task.priority = IF "priority" \in DOMAIN record /\ record.priority \in {"low", "med", "high"}
                     THEN Some(record.priority) ELSE Null

\* C24: a load keeps exactly the stored records that have an id and a
\* title, in their stored order; a kept record loses a due date that cannot
\* be parsed and a priority that is none of low, med, high, and keeps its
\* other fields.
C24_LoadKeepsAndCoerces ==
  [][(LoadsBob /\ IsRecordArray(Persisted(localStorage, BobId))) =>
        /\ Len(tasks') = Len(SelectSeq(Persisted(localStorage, BobId), HasIdAndTitle))
        /\ \A i \in 1..Len(tasks') :
              LoadedAs(tasks'[i], SelectSeq(Persisted(localStorage, BobId), HasIdAndTitle)[i])]_vars

\* of four stored records the two with id and title were loaded, the first
\* without its due date and priority
C24_Witness ==
  /\ lastEvent = [op |-> "login", result |-> MsgSignedIn]
  /\ Persisted(localStorage, BobId) = ForeignMalformed
  /\ Len(tasks) = 2
  /\ tasks[1].id = 2 /\ tasks[1].dueAt = Null /\ tasks[1].priority = Null
  /\ tasks[2].id = 0 /\ tasks[2].dueAt = <<2024, 3, 1>>

\* C25: a sign-in or page load for an account whose stored value is
\* missing, is not JSON or is not an array ends with that account active
\* and an empty collection.
C25_LoadFailsSoft ==
  [][(/\ \/ lastEvent' = [op |-> "login", result |-> MsgSignedIn]
         \/ lastEvent' = [op |-> "startup", result |-> "restored"]
      /\ \/ getTaskStorageKey(BobId) \notin DOMAIN localStorage
         \/ ~IsRecordArray(Persisted(localStorage, BobId)))
     => /\ tasks' = <<>>
        /\ currentAccount' # Null
        /\ currentAccount'.id = BobId
        /\ SESSION_KEY \in DOMAIN localStorage'
        /\ localStorage'[SESSION_KEY].id = BobId]_vars

\* "Bob" signed in over a stored value that is not an array
C25_Witness ==
  /\ lastEvent = [op |-> "login", result |-> MsgSignedIn]
  /\ currentAccount # Null
  /\ tasks = <<>>
  /\ Persisted(localStorage, BobId) \in {UnparseableJson, JsonObject([id |-> 0, title |-> TitleA])}

\* C26: a toggle, an edit or a delete for an id that no task of the
\* collection has leaves the collection and the storage as they are.
C26_MissingIdIsNoOp ==
  [][\A id \in KnownIds :
        (/\ ~HasTask(tasks, id)
         /\ \/ \E checked \in BOOLEAN : ToggleChange(id, checked)
            \/ \E v \in TitleInputs \cup {EmptyString} : EditSubmit(id, v)
            \/ \E ok \in BOOLEAN : DeleteClick(id, ok))
        => tasks' = tasks /\ localStorage' = localStorage]_vars

\* a task was created, is no longer in the collection, and a toggle, an edit
\* or a delete arrived for an id that no task has
C26_Witness ==
  /\ lastEvent.op \in {"update", "edit", "delete"}
  /\ lastEvent.result = "missing"
  /\ currentAccount # Null
  /\ nextId > 1
  /\ ~HasTask(tasks, 1)

\* C27: the ids of the tasks in memory are pairwise distinct.
C27_UniqueIds == Cardinality(IdsOf(tasks)) = Len(tasks)

\* C28: every task in memory has a title that is not empty.
C28_NonEmptyTitles == \A i \in 1..Len(tasks) : tasks[i].title # EmptyString

\* the call that waits for promise k is suspended
Suspended(k) == \E j \in 1..Len(pending) : pending[j].promise = k

\* messages a finished login or registration shows
FinishMessages == {MsgSignedIn, MsgIncorrect, MsgCreated}

\* C29: every suspended login or registration eventually finishes, and a
\* call leaves the suspended ones only by finishing: the step shows the
\* result of a login or registration, whatever was submitted after it.
C29_EveryCallFinishes ==
  /\ \A k \in 1..MaxPending : Suspended(k) ~> ~Suspended(k)
  /\ [][\A k \in 1..MaxPending :
          (Suspended(k) /\ ~Suspended(k)') =>
             /\ lastEvent'.op \in {"login", "register"}
             /\ lastEvent'.result \in FinishMessages]_vars

\* a registration finished while a call submitted after it is suspended
C29_Witness ==
  /\ lastEvent = [op |-> "register", result |-> MsgCreated]
  /\ pending # <<>>
  /\ currentAccount # Null

\* C30: today() is the calendar date that the local time zone shows at the
\* current instant.
C30_TodayIsLocalDate ==
  todayISO(now) = CivilFromDays(LocalDay(timeZone, NewDate(now)))

\* events that move the anchor date of the agenda
AnchorEvents == {"agenda-date", "agenda-prev", "agenda-next", "agenda-today"}

\* C31: from every state the agenda scope can be set to all, day and week;
\* a change of the scope leaves the anchor date as it is, a move of the
\* anchor date leaves the scope as it is, and neither changes the
\* collection, the storage, the status filter or the sort key.
C31_AgendaScopeAndAnchor ==
  /\ [](\A value \in {"all", "day", "week"} :
          ENABLED (AgendaScopeChange(value) /\ agendaScope' = value))
  /\ [][/\ lastEvent'.op = "agenda-scope" => agendaDate' = agendaDate
        /\ lastEvent'.op \in AnchorEvents => agendaScope' = agendaScope
        /\ lastEvent'.op \in AnchorEvents \cup {"agenda-scope"} =>
              /\ tasks' = tasks
              /\ localStorage' = localStorage
              /\ currentFilter' = currentFilter
              /\ currentSort' = currentSort]_vars

\* the scope was set to week after the anchor date had been moved away from
\* today, under a filter and a sort key that are not the defaults
C31_Witness ==
  /\ lastEvent.op = "agenda-scope"
  /\ agendaScope = "week"
  /\ agendaDate # todayISO(now)
  /\ currentFilter # "all"
  /\ currentSort # defaultSortValue

\* the task passes the status filter and lies in the agenda window, decided
\* from the five view inputs alone
InView(task) == StatusMatches(task) /\ InAgendaWindow(task)

\* C32: the visible sequence is determined by the collection, the status
\* filter, the agenda scope, the anchor date and the sort key: it is the
\* tasks that pass the filter and lie in the window, in the order of the
\* sort key, whatever else the state holds.
C32_ViewFromInputsOnly == getVisibleTasks = sortTasks(SelectSeq(tasks, InView))

\* ids of the accounts that can exist
AccountIds == {normalizeUsername(Trim(u)) : u \in UsernameInputs}

\* C33: a create, toggle, edit or delete changes the stored collection of
\* no account other than the active one, and a login, a registration or a
\* sign-out changes the stored collection of no account.
C33_OtherCollectionsUntouched ==
  [][/\ lastEvent'.op \in {"create", "update", "edit", "delete"} =>
          \A id \in AccountIds :
             (currentAccount = Null \/ id # currentAccount.id) =>
                Persisted(localStorage', id) = Persisted(localStorage, id)
     /\ lastEvent'.op \in {"login", "register", "logout"} =>
          \A id \in AccountIds :
             Persisted(localStorage', id) = Persisted(localStorage, id)]_vars

\* "Amy" created a task after "Bob" had signed in, changed his task and
\* signed out
C33_Witness ==
  /\ lastEvent = [op |-> "create", result |-> "created"]
  /\ currentAccount # Null
  /\ currentAccount.id = AmyId
  /\ Len(Persisted(localStorage, BobId)) = 1
  /\ Persisted(localStorage, BobId)[1].completed

\* C34: a page load that finds a session pointer to an account of the users
\* table ends with that account active, under the displayName of its
\* record, and with the collection stored for it in memory; a page load
\* that finds no pointer ends signed out with an empty collection.
C34_StartupRestores ==
  [][lastEvent'.op = "startup" =>
       IF SESSION_KEY \notin DOMAIN localStorage
       THEN currentAccount' = Null /\ tasks' = <<>>
       ELSE localStorage[SESSION_KEY].id \in DOMAIN loadUsers(localStorage) =>
              /\ currentAccount' # Null
              /\ currentAccount'.id = localStorage[SESSION_KEY].id
              /\ currentAccount'.displayName
                   = loadUsers(localStorage)[localStorage[SESSION_KEY].id].displayName
              /\ JsonTasks(tasks') = Persisted(localStorage, localStorage[SESSION_KEY].id)]_vars

\* the page was loaded again while "Amy" was signed in and had two tasks
\* stored, one of them created in this run
C34_Witness ==
  /\ lastEvent = [op |-> "startup", result |-> "restored"]
  /\ currentAccount # Null
  /\ currentAccount.id = AmyId
  /\ Len(tasks) = 2
  /\ tasks[1].id = 1

\* messages of a login or registration that failed
FailureMessages ==
  {MsgLoginRequired, MsgRegisterRequired, MsgMismatch, MsgUsernameShort, MsgPasswordShort,
   MsgUsernameRequired, MsgTaken, MsgNotFound, MsgIncorrect}

\* C35: a login or registration that ends with an error message leaves the
\* active account, the collection in memory and the whole storage (session
\* pointer, users table, stored collections) as they were.
C35_FailedAuthChangesNothing ==
  [][(lastEvent'.op \in {"login", "register"} /\ lastEvent'.result \in FailureMessages)
       => /\ currentAccount' = currentAccount
          /\ tasks' = tasks
          /\ localStorage' = localStorage]_vars

\* a login with a wrong password failed while an account was active and had
\* a task
C35_Witness ==
  /\ lastEvent = [op |-> "login", result |-> MsgIncorrect]
  /\ currentAccount # Null
  /\ tasks # <<>>
  /\ SESSION_KEY \in DOMAIN localStorage

\* the account value has the properties id and displayName and no other,
\* and neither is the password hash of a stored account
AccountOnly(account) ==
  /\ DOMAIN account = {"id", "displayName"}
  /\ \A id \in DOMAIN loadUsers(localStorage) :
        /\ account.id # loadUsers(localStorage)[id].passwordHash
        /\ account.displayName # loadUsers(localStorage)[id].passwordHash

\* C36: the active account, as register, authenticate or restore returned
\* it, and the stored session record hold the account id and the
\* displayName and nothing else, in particular no password hash.
C36_NoSecretInAccountOrSession ==
  /\ currentAccount # Null => AccountOnly(currentAccount)
  /\ SESSION_KEY \in DOMAIN localStorage => AccountOnly(localStorage[SESSION_KEY])

\* an account was registered where the fallback stores the password
\* itself, and is signed in
C36_Witness ==
  /\ lastEvent = [op |-> "register", result |-> MsgCreated]
  /\ ~webCrypto
  /\ currentAccount # Null
  /\ SESSION_KEY \in DOMAIN localStorage
  /\ loadUsers(localStorage)[currentAccount.id].passwordHash = PwSurrogate

\* C37: after a sign-out nobody is signed in until a login or registration
\* is submitted: when the digest of a call that was submitted before the
\* sign-out is delivered right after it, no account becomes active and no
\* session pointer is stored.
C37_NoSignInAfterLogout ==
  [][(/\ lastEvent = [op |-> "logout", result |-> MsgSignedOut]
      /\ \E i \in 1..MaxPending : HashResolved(i))
       => /\ currentAccount' = Null
          /\ SESSION_KEY \notin DOMAIN localStorage']_vars

\* the events that change the active account: a sign-in, a registration and
\* a sign-out that completed
AccountSwitches ==
  { [op |-> "login", result |-> MsgSignedIn],
    [op |-> "register", result |-> MsgCreated],
    [op |-> "logout", result |-> MsgSignedOut] }

====
